---- MODULE Spec2Model ----
(***************************************************************************)
(* Verification model of the Simplecontroller UDP servers.                 *)
(*                                                                         *)
(* Three servers of the repository share the command protocol and are      *)
(* modelled side by side (variable server, fixed at start-up):             *)
(*   "modular"  server.py main + NetworkManager + CommandProcessor +       *)
(*              GamepadHandler classes                                     *)
(*   "merged"   the merged Server.py (second half of GamepadHandler.py)    *)
(*   "cs2"      Controller Server 2.py (second half of CommandProcessor.py)*)
(* A fourth server, "touchpad" (touchpad only.py, the second half of        *)
(* server.py), handles the pointer only; it runs in the specifications of   *)
(* touch handling.                                                          *)
(*                                                                         *)
(* A datagram's text is a sequence of tokens; the separators ":" and ","   *)
(* are tokens of their own, so startswith, split and "in" are computed on  *)
(* the text and not assumed.  Time is in milliseconds.                     *)
(***************************************************************************)
EXTENDS Integers, Sequences, FiniteSets, TLC

VARIABLES
    server,              \* which server program runs
    now,                 \* time.time(), in ms
    loop_alive,          \* the receive loop's "while True" is still running
    loop_wake,           \* the receive loop sleeps in time.sleep until this time
    active_connections,  \* addr_key -> [player_id, last_seen]
    gamepads,            \* player -> state of the virtual controller
    gp_log,              \* player -> press/release reports the controller received
    btn_cmds,            \* player -> button commands handled, in order
    timers,              \* pending threading.Timer auto-releases
    seqs,                \* running sequence threads
    kbm_calls,           \* keyboard / mouse actuator calls made, with the identity they were made for
    last_reply,          \* the last datagram sent back
    last_dispatch,       \* the last datagram the receive loop dispatched
    acked,               \* addr_key -> identity last confirmed by CONNECTED / REGISTERED
    failures,            \* actuator calls that raised: in the receive loop, in a sequence thread, in a Timer
    next_sweep,          \* when scheduled_cleanup's sleep(10) ends
    housekeeping,        \* udp_server's one-shot housekeeping Timer is still pending
    last_sweep,          \* what the last clean_inactive_connections saw and removed
    n_recv,              \* datagrams received so far
    mouse_states,        \* player -> touch state (Controller Server 2)
    smoother,            \* the one StabilitySmoother (merged and modular server)
    momentum_timers,     \* pending threading.Timer momentum updates
    moves,               \* calls of the pointer actuator made for touch, in order
    last_sample,         \* addr_key -> the touch sample the sender sent last
    sweeper,             \* the scheduled_cleanup thread: where it is, and the size of the registry when its scan began
    key_states,          \* player -> the keys the server holds as pressed
    keyboard,            \* the keys the keyboard library reports as pressed
    cleaner              \* clean_key_states: where it is, and the keys it has still to check

vars == << server, now, loop_alive, loop_wake, active_connections, gamepads,
           gp_log, btn_cmds, timers, seqs, kbm_calls, last_reply,
           last_dispatch, acked, failures, next_sweep, housekeeping,
           last_sweep, n_recv, mouse_states, smoother, momentum_timers, moves,
           last_sample, sweeper, key_states, keyboard, cleaner >>

touch_vars == << mouse_states, smoother, momentum_timers, moves, last_sample >>

key_vars == << key_states, keyboard, cleaner >>

-----------------------------------------------------------------------------
(* Bounds of the model *)

MaxDatagrams == 3
MaxTime == 200
MaxSessionTime == 40000

(* Program constants, in ms *)

AUTO_RELEASE_MS == 100
TIMEOUT_MS == 30000
CLEANUP_PERIOD_MS == 10000
HOUSEKEEPING_MS == 10000
DELTA_GAIN == 40

Servers == {"modular", "merged", "cs2"}

\* the servers whose touch handling is in the source tree
PointerServers == {"merged", "cs2", "touchpad"}
Players == {"player1", "player2"}
Addrs == {"a1", "a2"}

-----------------------------------------------------------------------------
(* Text: tokens, and the string operations the servers use *)

COLON == ":"
COMMA == ","

\* index of the first occurrence of tok in data, 0 when absent
RECURSIVE FindFrom(_, _, _)
FindFrom(data, tok, i) ==
    IF i > Len(data) THEN 0
    ELSE IF data[i] = tok THEN i
    ELSE FindFrom(data, tok, i + 1)

Find(data, tok) == FindFrom(data, tok, 1)

\* tok in data
Contains(data, tok) == Find(data, tok) > 0

\* data.split(tok, 1)[0] and data.split(tok, 1)[1]; tok must occur in data
SplitHead(data, tok) == SubSeq(data, 1, Find(data, tok) - 1)
SplitRest(data, tok) == SubSeq(data, Find(data, tok) + 1, Len(data))

\* data.startswith("<word>:")
StartsWith(data, word) == Len(data) >= 2 /\ data[1] = word /\ data[2] = COLON

\* data.split(","), dropping the parts that are empty after strip()
RECURSIVE SplitAll(_, _)
SplitAll(data, tok) ==
    IF ~Contains(data, tok)
    THEN IF data = <<>> THEN <<>> ELSE <<data>>
    ELSE LET h == SplitHead(data, tok)
             r == SplitAll(SplitRest(data, tok), tok)
         IN  IF h = <<>> THEN r ELSE <<h>> \o r

\* the words the model's datagrams use that begin with "WAIT_"
WaitWords == {"WAIT_200", "WAIT_100", "WAIT_abc", "WAIT_99999999999999999999"}

\* data.startswith("WAIT_")
StartsWithWait(data) == Len(data) >= 1 /\ data[1] \in WaitWords

\* marks a wait whose time.sleep(wait_ms / 1000.0) raises OverflowError: the
\* number of seconds does not fit the clock (and from 310 digits on the
\* division itself overflows)
WaitOverflow == -2

\* int(command.split("_")[1]) in ms, -1 when int() raises ValueError: the text
\* after the first underscore runs to the end of the datagram (or to a second
\* underscore), so anything following the digits makes int() fail
WaitMs(data) ==
    IF Len(data) # 1 THEN -1
    ELSE CASE data[1] = "WAIT_200" -> 200
           [] data[1] = "WAIT_100" -> 100
           [] data[1] = "WAIT_99999999999999999999" -> WaitOverflow
           [] OTHER -> -1

\* float(tok) in thousandths; NaN marks a ValueError, QuietNaN the float
\* that float("nan") returns
NaN == 999999
QuietNaN == 999998
ParseFloat(tok) ==
    CASE tok = "0.0"  -> 0
      [] tok = "0.02" -> 20
      [] tok = "0.5"  -> 500
      [] tok = "0.95" -> 950
      [] tok = "-0.5" -> -500
      [] tok = "1.0"  -> 1000
      [] tok = "-1.0" -> -1000
      [] tok = "2.5"  -> 2500
      [] tok = "-3"   -> -3000
      [] tok = "1e3"  -> 1000000
      [] tok = "inf"  -> 1000000000
      [] tok = "-inf" -> -1000000000
      [] tok = "nan"  -> QuietNaN
      [] OTHER -> NaN

Abs(v) == IF v < 0 THEN -v ELSE v
Min(a, b) == IF a < b THEN a ELSE b
Max(a, b) == IF a > b THEN a ELSE b

\* variant of the rule below: no clamping
normalize_value_unclamped(tok) ==
    IF ParseFloat(tok) = NaN THEN 0 ELSE ParseFloat(tok)

\* max(-1.0, min(1.0, float(value))), 0.0 on ValueError; min(1.0, nan) is
\* 1.0, since no comparison with nan is true
normalize_value(tok) ==
    IF ParseFloat(tok) = NaN THEN 0
    ELSE IF ParseFloat(tok) = QuietNaN THEN 1000
    ELSE Max(-1000, Min(1000, ParseFloat(tok)))

\* int(v * gain) for v in thousandths: truncation toward zero
IntOfScaled(v, gain) ==
    IF v >= 0 THEN (v * gain) \div 1000 ELSE -((-v * gain) \div 1000)

-----------------------------------------------------------------------------
(* The button tables *)

NoButton == "-"

\* xbox_buttons[command], NoButton when command is not in the table
xbox_buttons(word) ==
    CASE word \in {"X360A", "X360A_HOLD", "BUTTON_A_PRESSED"} -> "A"
      [] word \in {"X360B", "X360B_HOLD", "BUTTON_B_PRESSED"} -> "B"
      [] word \in {"X360X", "X360X_HOLD", "BUTTON_X_PRESSED"} -> "X"
      [] OTHER -> NoButton

\* xbox_release_commands[command]
xbox_release_commands(word) ==
    CASE word \in {"X360A_RELEASE", "BUTTON_A_RELEASED"} -> "A"
      [] word \in {"X360B_RELEASE", "BUTTON_B_RELEASED"} -> "B"
      [] word \in {"X360X_RELEASE"} -> "X"
      [] OTHER -> NoButton

\* command.endswith("_HOLD")
EndsWithHold(word) == word \in {"X360A_HOLD", "X360B_HOLD", "X360X_HOLD"}

Buttons == {"A", "B", "X"}

\* command in xbox_buttons / command in xbox_release_commands, for a whole text
InPressTable(data) == Len(data) = 1 /\ xbox_buttons(data[1]) # NoButton
InReleaseTable(data) == Len(data) = 1 /\ xbox_release_commands(data[1]) # NoButton

-----------------------------------------------------------------------------
(* What a dispatch decides: the handler branch taken and its operands.     *)
(*   k        the handler branch                                           *)
(*   guarded  the branch tests player_id == 'player1' before the actuator  *)
(*   catches  the branch catches an exception of the actuator call         *)

NoAct ==
    [k |-> "none", b |-> NoButton, hold |-> FALSE, ms |-> 0, cmds |-> <<>>,
     op |-> "-", key |-> "-", side |-> "-", x |-> 0, y |-> 0,
     guarded |-> TRUE, catches |-> TRUE]

PressAct(b, hold) == [NoAct EXCEPT !.k = "press", !.b = b, !.hold = hold]
ReleaseAct(b) == [NoAct EXCEPT !.k = "release", !.b = b]
\* variant of the rule below: the wait does not sleep
WaitAct_zero(ms) == [NoAct EXCEPT !.k = "wait", !.ms = 0]

WaitAct(ms) == [NoAct EXCEPT !.k = "wait", !.ms = ms]
SeqAct(cmds) == [NoAct EXCEPT !.k = "seq", !.cmds = cmds]
KeyAct(op, key, guarded, catches) ==
    [NoAct EXCEPT !.k = "key", !.op = op, !.key = key,
                  !.guarded = guarded, !.catches = catches]
MouseAct(op, x, y, guarded, catches) ==
    [NoAct EXCEPT !.k = "mouse", !.op = op, !.x = x, !.y = y,
                  !.guarded = guarded, !.catches = catches]
StickAct(x, y, side) == [NoAct EXCEPT !.k = "stick", !.x = x, !.y = y, !.side = side]
TriggerAct(v, side) == [NoAct EXCEPT !.k = "trigger", !.x = v, !.side = side]
TouchAct(op) == [NoAct EXCEPT !.k = "touch", !.op = op]
TouchSample(x, y) == [NoAct EXCEPT !.k = "touch", !.op = "sample", !.x = x, !.y = y]

NoReply == <<>>

\* variant of the test below: every id is accepted
ValidPlayerId_any(text) == TRUE

\* "if new_player_id in ['player1', 'player2']"
ValidPlayerId(text) == text \in {<<"player1">>, <<"player2">>}

\* what process_command returns to its caller, and what it did on the way:
\*   reply  the return value; store  the identity written to the registry
\*   ("keep": none); pid  the identity the command was handled under
Result(reply, store, pid, act) ==
    [reply |-> reply, store |-> store, pid |-> pid, act |-> act]

\* normalize_value of a text that may hold separators: float() of it raises
NormText(text) == IF Len(text) = 1 THEN normalize_value(text[1]) ELSE 0

\* float() of a text, NaN on ValueError
FloatText(text) == IF Len(text) = 1 THEN ParseFloat(text[1]) ELSE NaN

StickShortcutWords ==
    {"LS_UP", "LS_DOWN", "LS_LEFT", "LS_RIGHT", "RS_UP", "RS_DOWN", "RS_LEFT", "RS_RIGHT"}

\* the stick_shortcuts table: handle_stick_input(x, y, stick_type)
stick_shortcuts(word) ==
    CASE word = "LS_UP"    -> StickAct(normalize_value("0.0"), normalize_value("1.0"), "LEFT")
      [] word = "LS_DOWN"  -> StickAct(normalize_value("0.0"), normalize_value("-1.0"), "LEFT")
      [] word = "LS_LEFT"  -> StickAct(normalize_value("-1.0"), normalize_value("0.0"), "LEFT")
      [] word = "LS_RIGHT" -> StickAct(normalize_value("1.0"), normalize_value("0.0"), "LEFT")
      [] word = "RS_UP"    -> StickAct(normalize_value("0.0"), normalize_value("1.0"), "RIGHT")
      [] word = "RS_DOWN"  -> StickAct(normalize_value("0.0"), normalize_value("-1.0"), "RIGHT")
      [] word = "RS_LEFT"  -> StickAct(normalize_value("-1.0"), normalize_value("0.0"), "RIGHT")
      [] OTHER             -> StickAct(normalize_value("1.0"), normalize_value("0.0"), "RIGHT")

MouseButtonWords ==
    {"MOUSE_LEFT_DOWN", "MOUSE_LEFT_UP", "TOUCHPAD_END", "TOUCH_END", "MOUSE_RESET"}

\* the trigger prefixes, in the order the servers test them
TriggerSide(data) ==
    CASE StartsWith(data, "TRIGGER_L") -> "LEFT"
      [] StartsWith(data, "TRIGGER_R") -> "RIGHT"
      [] StartsWith(data, "LT") -> "LEFT"
      [] StartsWith(data, "RT") -> "RIGHT"
      [] OTHER -> "-"

\* "dx, dy = map(float, data[6:].split(",", 1))": both floats, or ValueError
DeltaOk(data) ==
    LET rest == SplitRest(data, COLON) IN
        /\ Contains(rest, COMMA)
        /\ FloatText(SplitHead(rest, COMMA)) # NaN
        /\ FloatText(SplitRest(rest, COMMA)) # NaN

DeltaX(data) == IntOfScaled(FloatText(SplitHead(SplitRest(data, COLON), COMMA)), DELTA_GAIN)
DeltaY(data) == IntOfScaled(FloatText(SplitRest(SplitRest(data, COLON), COMMA)), DELTA_GAIN)

-----------------------------------------------------------------------------
(* Handlers of the modular server that are not in the source tree          *)
(* (MouseHandler.py, KeyboardHandler.py).  Their call sites are: the mouse *)
(* handler is never given the player identity, the keyboard handler is.    *)

MouseHandler_handle_delta(dx, dy) == MouseAct("move", dx, dy, FALSE, TRUE)

MouseHandler_handle_button_command(word) ==
    CASE word = "MOUSE_LEFT_DOWN" -> MouseAct("down", 0, 0, FALSE, TRUE)
      [] word = "MOUSE_LEFT_UP"   -> MouseAct("up", 0, 0, FALSE, TRUE)
      [] word \in {"TOUCHPAD_END", "TOUCH_END"} -> TouchAct("end")
      [] OTHER -> NoAct

KeyboardHandler_handle_key_press(key) == KeyAct("press", key, TRUE, TRUE)
KeyboardHandler_handle_key_release(key) == KeyAct("release", key, TRUE, TRUE)

\* the text of a key name
TextKey(text) == IF Len(text) = 1 THEN text[1] ELSE "<text>"

-----------------------------------------------------------------------------
(* CommandProcessor.process_command of the modular server *)

\* the branches after the trigger prefixes
CommandProcessor_tail(data, player_id) ==
    IF StartsWithWait(data) THEN Result(NoReply, "keep", player_id, WaitAct(WaitMs(data)))
    ELSE IF Len(data) = 1 /\ data[1] \in StickShortcutWords
    THEN Result(NoReply, "keep", player_id, stick_shortcuts(data[1]))
    ELSE IF /\ Contains(data, COLON)
            /\ Contains(SplitRest(data, COLON), COMMA)
            /\ SplitHead(data, COLON) \in {<<"STICK">>, <<"STICK_L">>, <<"LS">>}
    THEN Result(NoReply, "keep", player_id,
                StickAct(NormText(SplitHead(SplitRest(data, COLON), COMMA)),
                         NormText(SplitRest(SplitRest(data, COLON), COMMA)), "LEFT"))
    ELSE IF /\ Contains(data, COLON)
            /\ Contains(SplitRest(data, COLON), COMMA)
            /\ SplitHead(data, COLON) \in {<<"STICK_R">>, <<"RS">>}
    THEN Result(NoReply, "keep", player_id,
                StickAct(NormText(SplitHead(SplitRest(data, COLON), COMMA)),
                         NormText(SplitRest(SplitRest(data, COLON), COMMA)), "RIGHT"))
    ELSE IF InReleaseTable(data)
    THEN Result(NoReply, "keep", player_id, ReleaseAct(xbox_release_commands(data[1])))
    ELSE IF InPressTable(data)
    THEN Result(NoReply, "keep", player_id,
                PressAct(xbox_buttons(data[1]), EndsWithHold(data[1])))
    ELSE IF Contains(data, COMMA)
    THEN Result(NoReply, "keep", player_id, SeqAct(SplitAll(data, COMMA)))
    ELSE Result(NoReply, "keep", player_id, KeyAct("tap", TextKey(data), TRUE, TRUE))

CommandProcessor_process_command(data, player_id) ==
    IF data = <<>> THEN Result(NoReply, "keep", player_id, NoAct)
    ELSE IF data = <<"PING">> THEN Result(<<"PONG">>, "keep", player_id, NoAct)
    ELSE IF StartsWith(data, "CONNECT")
    THEN IF ValidPlayerId(SplitRest(data, COLON))
         THEN Result(<<"CONNECTED", data[3]>>, "keep", data[3], NoAct)
         ELSE Result(<<"ERROR", "invalid_player_id">>, "keep", player_id, NoAct)
    ELSE IF StartsWith(data, "REGISTER")
    THEN IF ValidPlayerId(SplitRest(data, COLON))
         THEN Result(<<"REGISTERED", data[3]>>, "keep", data[3], NoAct)
         ELSE Result(<<"ERROR", "invalid_player_id">>, "keep", player_id, NoAct)
    ELSE IF StartsWith(data, "DELTA")
    THEN IF DeltaOk(data)
         THEN Result(NoReply, "keep", player_id,
                     MouseHandler_handle_delta(DeltaX(data), DeltaY(data)))
         ELSE Result(NoReply, "keep", player_id, NoAct)
    ELSE IF StartsWith(data, "TOUCHPAD") \/ StartsWith(data, "POS")
    THEN IF Contains(SplitRest(data, COLON), COMMA)
         THEN Result(NoReply, "keep", player_id,
                     TouchSample(NormText(SplitHead(SplitRest(data, COLON), COMMA)),
                                 NormText(SplitRest(SplitRest(data, COLON), COMMA))))
         ELSE Result(NoReply, "keep", player_id, NoAct)
    ELSE IF Len(data) = 1 /\ data[1] \in MouseButtonWords
    THEN Result(NoReply, "keep", player_id, MouseHandler_handle_button_command(data[1]))
    ELSE IF StartsWith(data, "KEY_SYNC") THEN Result(NoReply, "keep", player_id, NoAct)
    ELSE IF StartsWith(data, "KEY_DOWN")
    THEN Result(NoReply, "keep", player_id,
                KeyboardHandler_handle_key_press(TextKey(SplitRest(data, COLON))))
    ELSE IF StartsWith(data, "KEY_UP")
    THEN Result(NoReply, "keep", player_id,
                KeyboardHandler_handle_key_release(TextKey(SplitRest(data, COLON))))
    ELSE IF TriggerSide(data) # "-"
    THEN Result(NoReply, "keep", player_id,
                TriggerAct(NormText(SplitRest(data, COLON)), TriggerSide(data)))
    ELSE CommandProcessor_tail(data, player_id)

-----------------------------------------------------------------------------
(* handle_button_press of the merged server and of Controller Server 2:    *)
(* the handler of a stand-alone button command and of every sub-command of *)
(* a sequence.  It always returns a handled result.                        *)

\* the release table, the press table, then the keyboard fallback
ButtonOrKey(command) ==
    IF InReleaseTable(command) THEN ReleaseAct(xbox_release_commands(command[1]))
    ELSE IF InPressTable(command)
    THEN PressAct(xbox_buttons(command[1]), EndsWithHold(command[1]))
    ELSE KeyAct("tap", TextKey(command), TRUE, TRUE)

\* handle_key_press of the merged server ignores the key named SYNC
Merged_handle_key_press(key) ==
    IF key = "SYNC" THEN NoAct ELSE KeyAct("press", key, TRUE, TRUE)

\* handle_mouse_buttons of the merged server: no test of the player
Merged_handle_mouse_buttons(word) ==
    CASE word = "MOUSE_LEFT_DOWN" -> MouseAct("down", 0, 0, FALSE, TRUE)
      [] word = "MOUSE_LEFT_UP"   -> MouseAct("up", 0, 0, FALSE, TRUE)
      [] word \in {"TOUCHPAD_END", "TOUCH_END"} -> TouchAct("end")
      [] OTHER -> NoAct

Merged_handle_button_press(command) ==
    IF StartsWith(command, "KEY_SYNC") THEN NoAct
    ELSE IF StartsWith(command, "KEY_DOWN")
    THEN Merged_handle_key_press(TextKey(SplitRest(command, COLON)))
    ELSE IF StartsWith(command, "KEY_UP")
    THEN KeyAct("release", TextKey(SplitRest(command, COLON)), TRUE, TRUE)
    ELSE IF StartsWithWait(command) THEN WaitAct(WaitMs(command))
    ELSE IF command \in {<<"MOUSE_LEFT_DOWN">>, <<"MOUSE_LEFT_UP">>}
    THEN Merged_handle_mouse_buttons(command[1])
    ELSE ButtonOrKey(command)

CS2_handle_button_press(command) ==
    IF StartsWith(command, "KEY_DOWN") \/ StartsWith(command, "KEY_SYNC")
    THEN KeyAct("press", TextKey(SplitRest(command, COLON)), TRUE, TRUE)
    ELSE IF StartsWith(command, "KEY_UP")
    THEN KeyAct("release", TextKey(SplitRest(command, COLON)), TRUE, TRUE)
    ELSE IF StartsWithWait(command) THEN WaitAct(WaitMs(command))
    ELSE IF command = <<"MOUSE_LEFT_DOWN">> THEN MouseAct("down", 0, 0, TRUE, TRUE)
    ELSE IF command = <<"MOUSE_LEFT_UP">> THEN MouseAct("up", 0, 0, TRUE, TRUE)
    ELSE ButtonOrKey(command)

-----------------------------------------------------------------------------
(* process_command of the merged server and of Controller Server 2.        *)
(* Both read and write the registry themselves; Result.store is the        *)
(* identity they write to active_connections[addr_key]['player_id'].       *)

HasPlayerPrefix(data) == StartsWith(data, "player1") \/ StartsWith(data, "player2")

\* "STICK:x,y" and the other "<command>:<x>,<y>" texts; touch says how the
\* server handles TOUCHPAD and POS there
CoordinateBranch(data, player_id, store) ==
    LET command == SplitHead(data, COLON)
        coords  == SplitRest(data, COLON)
        x == NormText(SplitHead(coords, COMMA))
        y == NormText(SplitRest(coords, COMMA))
    IN  IF ~Contains(coords, COMMA) THEN Result(NoReply, store, player_id, NoAct)
        ELSE IF command \in {<<"STICK">>, <<"STICK_L">>, <<"LS">>}
        THEN Result(NoReply, store, player_id, StickAct(x, y, "LEFT"))
        ELSE IF command \in {<<"STICK_R">>, <<"RS">>}
        THEN Result(NoReply, store, player_id, StickAct(x, y, "RIGHT"))
        ELSE IF command \in {<<"TOUCHPAD">>, <<"POS">>}
        THEN Result(NoReply, store, player_id, TouchSample(x, y))
        ELSE Result(NoReply, store, player_id, NoAct)

\* handle_touchpad of the merged server: the DELTA path moves the pointer for
\* whoever sent it and catches ValueError only; the TOUCHPAD / POS path
\* normalizes both coordinates, and a text without a comma raises inside
\* its try block
Merged_handle_touchpad(command) ==
    IF StartsWith(command, "DELTA")
    THEN IF DeltaOk(command)
         THEN MouseAct("move", DeltaX(command), DeltaY(command), FALSE, FALSE)
         ELSE NoAct
    ELSE IF Contains(SplitRest(command, COLON), COMMA)
    THEN TouchSample(NormText(SplitHead(SplitRest(command, COLON), COMMA)),
                     NormText(SplitRest(SplitRest(command, COLON), COMMA)))
    ELSE NoAct

\* the merged server after the prefix is stripped
Merged_dispatch(data, player_id, store) ==
    IF StartsWith(data, "DELTA") \/ StartsWith(data, "TOUCHPAD") \/ StartsWith(data, "POS")
    THEN Result(NoReply, store, player_id, Merged_handle_touchpad(data))
    ELSE IF Len(data) = 1 /\ data[1] \in MouseButtonWords
    THEN Result(NoReply, store, player_id, Merged_handle_mouse_buttons(data[1]))
    ELSE IF data = <<"PING">> THEN Result(<<"PONG">>, store, player_id, NoAct)
    ELSE IF StartsWith(data, "CONNECT")
    THEN IF ValidPlayerId(SplitRest(data, COLON))
         THEN Result(<<"CONNECTED", data[3]>>, data[3], data[3], NoAct)
         ELSE Result(<<"ERROR", "invalid_player_id">>, store, player_id, NoAct)
    ELSE IF StartsWith(data, "REGISTER")
    THEN IF ValidPlayerId(SplitRest(data, COLON))
         THEN Result(<<"REGISTERED", data[3]>>, data[3], data[3], NoAct)
         ELSE Result(<<"ERROR", "invalid_player_id">>, store, player_id, NoAct)
    ELSE IF StartsWith(data, "KEY_SYNC") THEN Result(NoReply, store, player_id, NoAct)
    ELSE IF StartsWith(data, "KEY_DOWN")
    THEN Result(NoReply, store, player_id,
                Merged_handle_key_press(TextKey(SplitRest(data, COLON))))
    ELSE IF StartsWith(data, "KEY_UP")
    THEN Result(NoReply, store, player_id,
                KeyAct("release", TextKey(SplitRest(data, COLON)), TRUE, TRUE))
    ELSE IF TriggerSide(data) # "-"
    THEN Result(NoReply, store, player_id,
                TriggerAct(NormText(SplitRest(data, COLON)), TriggerSide(data)))
    ELSE IF StartsWithWait(data) THEN Result(NoReply, store, player_id, WaitAct(WaitMs(data)))
    ELSE IF Len(data) = 1 /\ data[1] \in StickShortcutWords
    THEN Result(NoReply, store, player_id, stick_shortcuts(data[1]))
    ELSE IF Contains(data, COLON) THEN CoordinateBranch(data, player_id, store)
    ELSE IF Contains(data, COMMA)
    THEN Result(NoReply, store, player_id, SeqAct(SplitAll(data, COMMA)))
    ELSE Result(NoReply, store, player_id, Merged_handle_button_press(data))

Merged_process_command(data, player_id) ==
    IF data = <<>> THEN Result(NoReply, "keep", player_id, NoAct)
    ELSE IF HasPlayerPrefix(data)
    THEN Merged_dispatch(SplitRest(data, COLON), data[1], data[1])
    ELSE Merged_dispatch(data, player_id, "keep")

\* Controller Server 2 after the prefix is stripped
CS2_dispatch(data, player_id, store) ==
    IF StartsWith(data, "KEY_DOWN") \/ StartsWith(data, "KEY_SYNC")
    THEN Result(NoReply, store, player_id,
                KeyAct("press", TextKey(SplitRest(data, COLON)), TRUE, TRUE))
    ELSE IF StartsWith(data, "KEY_UP")
    THEN Result(NoReply, store, player_id,
                KeyAct("release", TextKey(SplitRest(data, COLON)), TRUE, TRUE))
    ELSE IF TriggerSide(data) # "-"
    THEN Result(NoReply, store, player_id,
                TriggerAct(NormText(SplitRest(data, COLON)), TriggerSide(data)))
    ELSE IF StartsWithWait(data) THEN Result(NoReply, store, player_id, WaitAct(WaitMs(data)))
    ELSE IF Len(data) = 1 /\ data[1] \in StickShortcutWords
    THEN Result(NoReply, store, player_id, stick_shortcuts(data[1]))
    ELSE IF Contains(data, COLON) THEN CoordinateBranch(data, player_id, store)
    ELSE IF Contains(data, COMMA)
    THEN Result(NoReply, store, player_id, SeqAct(SplitAll(data, COMMA)))
    ELSE Result(NoReply, store, player_id, CS2_handle_button_press(data))

CS2_process_command(data, player_id) ==
    IF data = <<"PING">> THEN Result(<<"PONG">>, "keep", player_id, NoAct)
    ELSE IF data = <<"TOUCHPAD_DOWN">> THEN Result(NoReply, "keep", player_id, TouchAct("down"))
    ELSE IF data = <<"TOUCHPAD_UP">> THEN Result(NoReply, "keep", player_id, TouchAct("up"))
    ELSE IF StartsWith(data, "CONNECT")
    THEN IF ValidPlayerId(SplitRest(data, COLON))
         THEN Result(<<"CONNECTED", data[3]>>, data[3], data[3], NoAct)
         ELSE Result(<<"ERROR", "invalid_player_id">>, "keep", player_id, NoAct)
    ELSE IF StartsWith(data, "REGISTER")
    THEN IF ValidPlayerId(SplitRest(data, COLON))
         THEN Result(<<"REGISTERED", data[3]>>, data[3], data[3], NoAct)
         ELSE Result(<<"ERROR", "invalid_player_id">>, "keep", player_id, NoAct)
    ELSE IF HasPlayerPrefix(data)
    THEN CS2_dispatch(SplitRest(data, COLON), data[1], data[1])
    ELSE CS2_dispatch(data, player_id, "keep")

\* handle_mouse_buttons of the touchpad server
TouchOnly_handle_mouse_buttons(word) ==
    CASE word = "MOUSE_LEFT_DOWN" -> MouseAct("down", 0, 0, FALSE, TRUE)
      [] word = "MOUSE_LEFT_UP"   -> MouseAct("up", 0, 0, FALSE, TRUE)
      [] word \in {"TOUCHPAD_END", "TOUCH_END"} -> TouchAct("end")
      [] OTHER -> NoAct

\* process_command of the touchpad server: the prefix is dropped, a touch
\* sample needs its comma, and everything that is not a sample, a mouse
\* button word, PING, CONNECT or REGISTER is ignored
TouchOnly_process_command(data, player_id) ==
    LET d == IF HasPlayerPrefix(data) THEN SplitRest(data, COLON) ELSE data IN
        IF data = <<>> THEN Result(NoReply, "keep", player_id, NoAct)
        ELSE IF StartsWith(d, "TOUCHPAD") \/ StartsWith(d, "POS")
        THEN IF Contains(SplitRest(d, COLON), COMMA)
             THEN Result(NoReply, "keep", player_id,
                         TouchSample(NormText(SplitHead(SplitRest(d, COLON), COMMA)),
                                     NormText(SplitRest(SplitRest(d, COLON), COMMA))))
             ELSE Result(NoReply, "keep", player_id, NoAct)
        ELSE IF Len(d) = 1 /\ d[1] \in MouseButtonWords
        THEN Result(NoReply, "keep", player_id, TouchOnly_handle_mouse_buttons(d[1]))
        ELSE IF d = <<"PING">> THEN Result(<<"PONG">>, "keep", player_id, NoAct)
        ELSE IF StartsWith(d, "CONNECT") \/ StartsWith(d, "REGISTER")
        THEN Result(<<"CONNECTED", "player1">>, "keep", player_id, NoAct)
        ELSE Result(NoReply, "keep", player_id, NoAct)

\* the modular server: NetworkManager.receive_data strips the prefix and
\* stores it, then CommandProcessor.process_command runs on the rest
Modular_process_command(data, player_id) ==
    IF HasPlayerPrefix(data)
    THEN [CommandProcessor_process_command(SplitRest(data, COLON), data[1])
            EXCEPT !.store = data[1]]
    ELSE CommandProcessor_process_command(data, player_id)

\* variant of the dispatch below: PING is answered for player1 sessions only
process_command_ping_player1(srv, data, player_id) ==
    LET r == CASE srv = "modular" -> Modular_process_command(data, player_id)
               [] srv = "merged"  -> Merged_process_command(data, player_id)
               [] OTHER           -> CS2_process_command(data, player_id)
    IN  IF data = <<"PING">> /\ player_id = "player2"
        THEN [r EXCEPT !.reply = NoReply] ELSE r

\* what the receive loop of each server does with one datagram
process_command(srv, data, player_id) ==
    CASE srv = "modular"  -> Modular_process_command(data, player_id)
      [] srv = "merged"   -> Merged_process_command(data, player_id)
      [] srv = "touchpad" -> TouchOnly_process_command(data, player_id)
      [] OTHER            -> CS2_process_command(data, player_id)

\* what a sequence thread does with one sub-command
sequence_command(srv, cmd, player_id) ==
    CASE srv = "modular" -> CommandProcessor_process_command(cmd, player_id).act
      [] srv = "merged"  -> Merged_handle_button_press(cmd)
      [] OTHER           -> CS2_handle_button_press(cmd)

-----------------------------------------------------------------------------
(* State *)

NoConn == [player_id |-> "none", last_seen |-> -1]

NoGamepad == [buttons |-> {}, lt |-> 0, rt |-> 0, ls |-> <<0, 0>>, rs |-> <<0, 0>>]

\* mouse_states[player_id] of Controller Server 2, with the defaults that
\* handle_touchpad_input fills in and that .get() supplies
NoTouch ==
    [touch_active |-> FALSE, first_input |-> TRUE, prev_x |-> 0, prev_y |-> 0,
     momentum_x |-> 0, momentum_y |-> 0, edge_active_x |-> FALSE,
     edge_active_y |-> FALSE, is_touchpad_active |-> FALSE]

\* StabilitySmoother.__init__; last_dx and last_dy are in units of 10^-7
NoSmoother ==
    [touch_active |-> FALSE, prev_x |-> 0, prev_y |-> 0, last_dx |-> 0, last_dy |-> 0,
     frame_count |-> 0, last_time |-> 0]

NoDispatch ==
    [addr |-> "-", data |-> <<>>, pid |-> "none", reply |-> NoReply,
     was |-> "none", expect |-> "none", at |-> -1, act |-> "none", nfail |-> 0,
     known |-> FALSE, repeat |-> FALSE, emitted |-> <<>>, fresh |-> FALSE,
     motion |-> <<>>]

NoSweep == [at |-> -1, before |-> [a \in Addrs |-> NoConn]]

\* scheduled_cleanup inside its time.sleep(10)
Sleeping == [pc |-> "sleeping", size |-> 0, to_remove |-> {}]

\* clean_key_states is not running; round: the end of the sleep(10) after
\* which it runs next
Idle(round) == [pc |-> "idle", keys |-> {}, round |-> round]

\* the state after start-up of the server that runs
Started ==
    /\ now = 0
    /\ loop_alive = TRUE
    /\ loop_wake = 0
    /\ active_connections = [a \in Addrs |-> NoConn]
    /\ gamepads = [p \in Players |-> NoGamepad]
    /\ gp_log = [p \in Players |-> <<>>]
    /\ btn_cmds = [p \in Players |-> <<>>]
    /\ timers = <<>>
    /\ seqs = <<>>
    /\ kbm_calls = {}
    /\ last_reply = NoReply
    /\ last_dispatch = NoDispatch
    /\ acked = [a \in Addrs |-> "none"]
    /\ failures = [loop |-> 0, thread |-> 0, timer |-> 0]
    /\ next_sweep = CLEANUP_PERIOD_MS
    /\ housekeeping = (server \in {"merged", "cs2"})
    /\ last_sweep = NoSweep
    /\ n_recv = 0
    /\ mouse_states = [p \in Players |-> NoTouch]
    /\ smoother = NoSmoother
    /\ momentum_timers = <<>>
    /\ moves = <<>>
    /\ last_sample = [a \in Addrs |-> <<>>]
    /\ sweeper = Sleeping
    /\ key_states = [p \in Players |-> {}]
    /\ keyboard = {}
    /\ cleaner = Idle(CLEANUP_PERIOD_MS)

Init == server \in Servers /\ Started

InitPointer == server \in PointerServers /\ Started

-----------------------------------------------------------------------------
(* The effect of one handler branch, run for identity pid.  fail: the      *)
(* actuator call the branch makes raises an exception.                     *)

\* the branch reaches an actuator call
ActuatorCalled(act, pid) ==
    \/ act.k \in {"press", "release", "stick", "trigger"}
    \/ act.k \in {"key", "mouse"} /\ (~act.guarded \/ pid = "player1")

\* handle_stick_input: the deadzone, and y inverted for the gamepad
StickValue(act) ==
    IF Abs(act.x) < 50 /\ Abs(act.y) < 50 THEN <<0, 0>> ELSE <<act.x, -act.y>>

\* handle_trigger_input: max(0.0, min(1.0, value))
TriggerValue(act) == Max(0, Min(1000, act.x))

GamepadAfter(g, act, fail) ==
    IF fail THEN g
    ELSE CASE act.k = "press"   -> [g EXCEPT !.buttons = @ \cup {act.b}]
           [] act.k = "release" -> [g EXCEPT !.buttons = @ \ {act.b}]
           [] act.k = "stick" /\ act.side = "LEFT"  -> [g EXCEPT !.ls = StickValue(act)]
           [] act.k = "stick" /\ act.side = "RIGHT" -> [g EXCEPT !.rs = StickValue(act)]
           [] act.k = "trigger" /\ act.side = "LEFT"  -> [g EXCEPT !.lt = TriggerValue(act)]
           [] act.k = "trigger" /\ act.side = "RIGHT" -> [g EXCEPT !.rt = TriggerValue(act)]
           [] OTHER -> g

GpLogAfter(log, act, fail) ==
    IF ~fail /\ act.k \in {"press", "release"}
    THEN Append(log, [e |-> act.k, b |-> act.b, t |-> now])
    ELSE log

BtnCmdsAfter(cmds, act) ==
    IF act.k = "press"
    THEN Append(cmds, [c |-> IF act.hold THEN "hold" ELSE "press", b |-> act.b, t |-> now])
    ELSE IF act.k = "release" THEN Append(cmds, [c |-> "release", b |-> act.b, t |-> now])
    ELSE cmds

\* variants of the rule below: no press schedules a release; every press does
SchedulesRelease_never(act, fail) == FALSE

SchedulesRelease_hold_too(act, fail) == act.k = "press" /\ ~fail

\* "should_auto_release": the Timer is created after the press call, inside
\* the same try block
SchedulesRelease(act, fail) == act.k = "press" /\ ~act.hold /\ ~fail

\* variant of the rule below: every Timer releases on player1's controller
TimersAfter_shared(ts, act, pid, fail) ==
    IF act.k = "press" /\ ~act.hold /\ ~fail
    THEN Append(ts, [pid |-> "player1", b |-> act.b, at |-> now + AUTO_RELEASE_MS])
    ELSE ts

\* handle_button_press / handle_button_release leave the Timers alone
TimersAfter(ts, act, pid, fail) ==
    IF SchedulesRelease(act, fail)
    THEN Append(ts, [pid |-> pid, b |-> act.b, at |-> now + AUTO_RELEASE_MS])
    ELSE ts

\* CommandProcessor.process_command goes on to the keyboard fallback when
\* handle_button_release / handle_button_press return False
FallsToKeyboard(srv, act, pid, fail) ==
    srv = "modular" /\ act.k \in {"press", "release"} /\ fail /\ pid = "player1"

KbmAfter(srv, calls, act, pid, fail) ==
    IF act.k \in {"key", "mouse"} /\ ActuatorCalled(act, pid)
    THEN calls \cup {[dev |-> IF act.k = "key" THEN "keyboard" ELSE "mouse",
                      op |-> act.op, by |-> pid]}
    ELSE IF FallsToKeyboard(srv, act, pid, fail)
    THEN calls \cup {[dev |-> "keyboard", op |-> "tap", by |-> pid]}
    ELSE calls

\* handle_key_press / handle_key_release: "key_states[player_id][key] = True",
\* "del key_states[player_id][key]"
KeyStatesAfter(ks, act, pid) ==
    IF act.k = "key" /\ act.op = "press" THEN [ks EXCEPT ![pid] = @ \cup {act.key}]
    ELSE IF act.k = "key" /\ act.op = "release" THEN [ks EXCEPT ![pid] = @ \ {act.key}]
    ELSE ks

\* keyboard.press / keyboard.release, for player1 only
KeyboardAfter(kb, act, pid, fail) ==
    IF act.k = "key" /\ ActuatorCalled(act, pid) /\ ~fail
    THEN CASE act.op = "press"   -> kb \cup {act.key}
           [] act.op = "release" -> kb \ {act.key}
           [] OTHER -> kb
    ELSE kb

\* variant of the rule below: the wait handler catches every exception
Escapes_wait_caught(act, pid, fail) == fail /\ ActuatorCalled(act, pid) /\ ~act.catches

\* the exception leaves the handler: an actuator's exception where the branch
\* has no try/except, and the OverflowError of a wait, which the wait
\* handlers' "except (ValueError, IndexError)" does not catch
Escapes(act, pid, fail) ==
    \/ fail /\ ActuatorCalled(act, pid) /\ ~act.catches
    \/ act.k = "wait" /\ act.ms = WaitOverflow

\* what process_command of Controller Server 2 returns from its outer
\* "except Exception as e: return f'ERROR:{str(e)}'"
ErrorReply == <<"ERROR", "exception">>

\* the reply the loop sends: none when the exception reached the loop
ReplyAfter(srv, reply, escaped) ==
    IF ~escaped THEN reply
    ELSE IF srv = "cs2" THEN ErrorReply ELSE NoReply

\* variant of the rule below: no server catches inside the loop
LoopSurvives_outer_try(srv, escaped) == ~escaped

\* the receive loop's own try/except: server.py wraps the whole loop, the
\* merged server and Controller Server 2 wrap each iteration
LoopSurvives(srv, escaped) == srv # "modular" \/ ~escaped

-----------------------------------------------------------------------------
(* Touch samples.  Coordinates are in thousandths, pixel counts are        *)
(* integers, as in the code.                                               *)

\* int(a / b) for b > 0: truncation toward zero
TruncDiv(a, b) == IF a >= 0 THEN a \div b ELSE -((-a) \div b)

Sign(v) == IF v > 0 THEN 1 ELSE -1

\* one call of the pointer actuator
Move(dx, dy, by) == [dx |-> dx, dy |-> dy, by |-> by]

\* variant of the rule below: the momentum does not decay
Decay_none(m) == m

\* int(momentum * 0.95)
Decay(m) == TruncDiv(m * 95, 100)

\* one axis of _handle_edge_momentum: the decayed momentum, and whether the
\* axis stays edge-active
MomentumStays(active, m) == active /\ Abs(Decay(m)) >= 2

\* _handle_edge_momentum(mouse_state, player_id): the state after it, the
\* pointer calls it makes, and whether it starts the next 20 ms Timer
handle_edge_momentum(st, pid) ==
    LET keepx == MomentumStays(st.edge_active_x, st.momentum_x)
        keepy == MomentumStays(st.edge_active_y, st.momentum_y)
        mx == IF keepx THEN Decay(st.momentum_x) ELSE 0
        my == IF keepy THEN Decay(st.momentum_y) ELSE 0
    IN  [st |-> [st EXCEPT !.edge_active_x = keepx, !.edge_active_y = keepy,
                           !.momentum_x = IF keepx THEN mx ELSE @,
                           !.momentum_y = IF keepy THEN my ELSE @],
         out |-> IF (keepx \/ keepy) /\ pid = "player1"
                 THEN <<Move(mx, my, "momentum")>> ELSE <<>>,
         rearm |-> keepx \/ keepy]

\* the dynamic scaling of a raw delta, in units of 10^-4
ScaledRaw(raw) ==
    IF Abs(raw) < 10 THEN raw * 15
    ELSE IF Abs(raw) > 80 THEN raw * 22
    ELSE raw * 10

base_sensitivity == 150

\* int(dx_raw * base_sensitivity), and one pixel for a small intended move
Pixels(raw) ==
    LET d == TruncDiv(ScaledRaw(raw) * base_sensitivity, 10000) IN
        IF d = 0 /\ Abs(ScaledRaw(raw)) > 20 THEN Sign(raw) ELSE d

\* variant of the test below: no sample is taken for the first of a touch
FirstInput_never(st) == FALSE

\* "if not mouse_state.get('touch_active', False) or
\*  mouse_state.get('first_input', True)"
FirstInput(st) == ~st.touch_active \/ st.first_input

\* handle_touchpad_input(x, y, player_id) of Controller Server 2
handle_touchpad_input(st, x, y, pid) ==
    IF FirstInput(st)
    THEN [st |-> [st EXCEPT !.first_input = FALSE, !.touch_active = TRUE,
                            !.prev_x = x, !.prev_y = y],
          out |-> <<>>, rearm |-> FALSE]
    ELSE LET dx_raw == x - st.prev_x
             dy_raw == y - st.prev_y
             st1 == [st EXCEPT !.prev_x = x, !.prev_y = y]
         IN  IF Abs(dx_raw) * 10 < 8 /\ Abs(dy_raw) * 10 < 8
             THEN IF st1.edge_active_x \/ st1.edge_active_y
                  THEN handle_edge_momentum(st1, pid)
                  ELSE [st |-> st1, out |-> <<>>, rearm |-> FALSE]
             ELSE LET dx == Pixels(dx_raw)
                      dy == Pixels(dy_raw)
                      edge_x == Abs(x) > 900
                      edge_y == Abs(y) > 900
                      latch_x == edge_x /\ Abs(dx) > 2
                      latch_y == edge_y /\ Abs(dy) > 2
                      active == st1.is_touchpad_active \/ dx # 0 \/ dy # 0
                      st2 == [st1 EXCEPT
                                !.momentum_x = IF latch_x THEN dx ELSE @,
                                !.momentum_y = IF latch_y THEN dy ELSE @,
                                !.edge_active_x = latch_x \/ @,
                                !.edge_active_y = latch_y \/ @,
                                !.is_touchpad_active = active]
                      mv == IF active /\ pid = "player1"
                            THEN <<Move(dx, dy, "sample")>> ELSE <<>>
                      m == handle_edge_momentum(st2, pid)
                  IN  IF edge_x \/ edge_y
                      THEN [st |-> m.st, out |-> mv \o m.out, rearm |-> m.rearm]
                      ELSE [st |-> st2, out |-> mv, rearm |-> FALSE]

\* one axis of StabilitySmoother.process_movement behind the deadzone:
\* exponential smoothing, in units of 10^-7; e10 is ten times the factor
Smoothed(delta, last, e10) == TruncDiv(delta * 10000 * (10 - e10) + last * e10, 10)

\* sensitivity 50, max_speed 15, int(), and one pixel for a small move
FinalPixels(smoothed) ==
    LET scaled  == smoothed * 50
        limited == IF Abs(scaled) > 150000000 THEN Sign(scaled) * 150000000 ELSE scaled
        final   == TruncDiv(limited, 10000000)
    IN  IF Abs(smoothed) > 200000 /\ final = 0 THEN Sign(smoothed) ELSE final

\* StabilitySmoother.process_movement(x, y) at time t
process_movement(sm, x, y, t) ==
    IF ~sm.touch_active
    THEN [st |-> [sm EXCEPT !.prev_x = x, !.prev_y = y], out |-> <<>>, rearm |-> FALSE]
    ELSE LET dt == t - sm.last_time
             delta_x == x - sm.prev_x
             delta_y == y - sm.prev_y
             sm1 == [sm EXCEPT !.last_time = t, !.frame_count = @ + 1,
                               !.prev_x = x, !.prev_y = y]
             first == IF sm1.frame_count < 5 THEN 9 ELSE 7
             e10 == IF dt < 10 THEN Min(9, first + 1) ELSE first
             sdx == Smoothed(delta_x, sm.last_dx, e10)
             sdy == Smoothed(delta_y, sm.last_dy, e10)
             dx == FinalPixels(sdx)
             dy == FinalPixels(sdy)
         IN  IF Abs(delta_x) < 10 /\ Abs(delta_y) < 10
             THEN [st |-> sm1, out |-> <<>>, rearm |-> FALSE]
             ELSE [st |-> [sm1 EXCEPT !.last_dx = sdx, !.last_dy = sdy],
                   out |-> IF dx # 0 \/ dy # 0 THEN <<Move(dx, dy, "sample")>> ELSE <<>>,
                   rearm |-> FALSE]

\* StabilitySmoother.reset at time t
Smoother_reset(sm, t) ==
    [sm EXCEPT !.last_dx = 0, !.last_dy = 0, !.frame_count = 0, !.last_time = t,
               !.touch_active = TRUE]

\* MouseHandler.handle_touchpad(x, y) of the modular server, whose source is
\* not in the tree: the first sample of a touch resets the smoother and is
\* recorded without motion, the later ones go through process_movement
MouseHandler_handle_touchpad(sm, x, y, t) ==
    IF ~sm.touch_active
    THEN [st |-> [Smoother_reset(sm, t) EXCEPT !.prev_x = x, !.prev_y = y],
          out |-> <<>>, rearm |-> FALSE]
    ELSE process_movement(sm, x, y, t)

\* a touch sample on the touchpad server: process_command records the first
\* sample of a touch with update_position and reset() and returns; the later
\* ones go to handle_touchpad and process_movement
TouchOnly_touch_sample(sm, x, y, t) ==
    IF ~sm.touch_active
    THEN [st |-> Smoother_reset([sm EXCEPT !.prev_x = x, !.prev_y = y], t),
          out |-> <<>>, rearm |-> FALSE]
    ELSE process_movement(sm, x, y, t)

\* variant of the rule below: the finger leaving the pad stops the momentum
TouchUp_stops_momentum(st) ==
    [st EXCEPT !.touch_active = FALSE, !.edge_active_x = FALSE, !.edge_active_y = FALSE,
               !.momentum_x = 0, !.momentum_y = 0]

\* TOUCHPAD_UP of Controller Server 2:
\* "mouse_states[player_id]['touch_active'] = False"
TouchUp(st) == [st EXCEPT !.touch_active = FALSE]

\* what a touch command does on each server: the touch state of the player
\* (Controller Server 2) or the one smoother (the other two), the pointer
\* calls, the momentum Timer
TouchOutcome(srv, act, pid, ms, sm, t) ==
    IF act.k # "touch" THEN [ms |-> ms, sm |-> sm, out |-> <<>>, rearm |-> FALSE]
    ELSE IF srv = "cs2"
    THEN LET o == CASE act.op = "sample" -> handle_touchpad_input(ms[pid], act.x, act.y, pid)
                    [] act.op = "down" ->
                         [st |-> [ms[pid] EXCEPT !.touch_active = TRUE, !.first_input = TRUE],
                          out |-> <<>>, rearm |-> FALSE]
                    [] act.op = "up" ->
                         [st |-> TouchUp(ms[pid]), out |-> <<>>, rearm |-> FALSE]
                    [] OTHER -> [st |-> ms[pid], out |-> <<>>, rearm |-> FALSE]
         IN  [ms |-> [ms EXCEPT ![pid] = o.st], sm |-> sm, out |-> o.out, rearm |-> o.rearm]
    ELSE LET o == CASE act.op = "sample" /\ srv = "merged" ->
                         process_movement(sm, act.x, act.y, t)
                    [] act.op = "sample" /\ srv = "touchpad" ->
                         TouchOnly_touch_sample(sm, act.x, act.y, t)
                    [] act.op = "sample" ->
                         MouseHandler_handle_touchpad(sm, act.x, act.y, t)
                    [] act.op = "end" ->
                         [st |-> [sm EXCEPT !.touch_active = FALSE],
                          out |-> <<>>, rearm |-> FALSE]
                    [] OTHER -> [st |-> sm, out |-> <<>>, rearm |-> FALSE]
         IN  [ms |-> ms, sm |-> o.st, out |-> o.out, rearm |-> FALSE]

\* the pointer call of a DELTA command: moveRel(mx, my)
DeltaMotion(act, pid, fail) ==
    IF act.k = "mouse" /\ act.op = "move" /\ ActuatorCalled(act, pid) /\ ~fail
    THEN <<Move(act.x, act.y, "delta")>> ELSE <<>>

\* the pointer calls of one handler, stamped
Stamped(out, pid, t) ==
    [i \in 1..Len(out) |-> [dx |-> out[i].dx, dy |-> out[i].dy, by |-> out[i].by,
                            pid |-> pid, t |-> t]]

MOMENTUM_MS == 20

\* "threading.Timer(0.02, lambda: _handle_edge_momentum(mouse_state, player_id))"
MomentumTimersAfter(q, rearm, pid, t) ==
    IF rearm THEN Append(q, [pid |-> pid, at |-> t + MOMENTUM_MS]) ELSE q

-----------------------------------------------------------------------------
(* The receive loop *)

\* the loop is in recvfrom: running, and not inside a time.sleep
LoopReady == loop_alive /\ now >= loop_wake

\* variant of the rule below: a sender without a session is taken for player2
StoredPlayer_default_player2(conns, a) ==
    IF conns[a].player_id = "none" THEN "player2" ELSE conns[a].player_id

\* the player the registry holds for addr_key, 'player1' for a new sender
StoredPlayer(conns, a) ==
    IF conns[a].player_id = "none" THEN "player1" ELSE conns[a].player_id

\* the registry entry after a datagram from a: created or refreshed, with the
\* identity the command stored
ConnAfter(conns, a, store) ==
    [conns EXCEPT ![a] = [player_id |-> IF store = "keep" THEN StoredPlayer(conns, a) ELSE store,
                          last_seen |-> now]]

\* the datagram reaches the code that creates or refreshes the session: the
\* merged server's process_command returns on an empty text before it, and
\* the touchpad server keeps no registry
Admits(srv, data) == ~(srv = "merged" /\ data = <<>>) /\ srv # "touchpad"

\* a reply that confirms an identity
Confirms(reply) == Len(reply) = 2 /\ reply[1] \in {"CONNECTED", "REGISTERED"}

\* one iteration of the receive loop: recvfrom, process_command with all the
\* handlers it calls, sendto
Receive(a, data, fail) ==
    /\ LoopReady
    /\ n_recv < MaxDatagrams
    /\ \E r \in {process_command(server, data, StoredPlayer(active_connections, a))} :
       \E touch \in {TouchOutcome(server, r.act, r.pid, mouse_states, smoother, now)} :
       LET was == StoredPlayer(active_connections, a)
           act == r.act
           pid == r.pid
           escaped == Escapes(act, pid, fail)
           sample == act.k = "touch" /\ act.op = "sample"
       IN  /\ fail => ActuatorCalled(act, pid)
           /\ n_recv' = n_recv + 1
           /\ mouse_states' = touch.ms
           /\ smoother' = touch.sm
           /\ moves' = moves \o Stamped(touch.out, pid, now)
           /\ momentum_timers' = MomentumTimersAfter(momentum_timers, touch.rearm, pid, now)
           /\ last_sample' = [last_sample EXCEPT ![a] =
                                 IF sample THEN <<act.x, act.y>>
                                 ELSE IF act.k = "touch" THEN <<>> ELSE @]
           /\ active_connections' = IF Admits(server, data)
                                    THEN ConnAfter(active_connections, a, r.store)
                                    ELSE active_connections
           /\ gamepads' = [gamepads EXCEPT ![pid] = GamepadAfter(@, act, fail)]
           /\ gp_log' = [gp_log EXCEPT ![pid] = GpLogAfter(@, act, fail)]
           /\ btn_cmds' = [btn_cmds EXCEPT ![pid] = BtnCmdsAfter(@, act)]
           /\ timers' = TimersAfter(timers, act, pid, fail)
           /\ seqs' = IF act.k = "seq"
                      THEN Append(seqs, [pid |-> pid, cmds |-> act.cmds, wake |-> now,
                                         text |-> data, at |-> now])
                      ELSE seqs
           /\ kbm_calls' = KbmAfter(server, kbm_calls, act, pid, fail)
           /\ failures' = IF fail THEN [failures EXCEPT !.loop = @ + 1] ELSE failures
           /\ loop_wake' = IF act.k = "wait" /\ act.ms > 0 THEN now + act.ms ELSE loop_wake
           /\ loop_alive' = LoopSurvives(server, escaped)
           /\ last_reply' = IF ReplyAfter(server, r.reply, escaped) # NoReply
                            THEN ReplyAfter(server, r.reply, escaped) ELSE last_reply
           /\ last_dispatch' =
                 [addr |-> a, data |-> data, pid |-> pid,
                  reply |-> ReplyAfter(server, r.reply, escaped),
                  was |-> was,
                  expect |-> IF HasPlayerPrefix(data) \/ Confirms(r.reply)
                             THEN "none" ELSE acked[a],
                  at |-> now, act |-> act.k, nfail |-> failures.loop,
                  known |-> active_connections[a].player_id # "none",
                  repeat |-> sample /\ last_sample[a] = <<act.x, act.y>>,
                  emitted |-> touch.out,
                  fresh |-> sample /\ last_sample[a] = <<>>,
                  motion |-> touch.out \o DeltaMotion(act, pid, fail)]
           /\ acked' = [acked EXCEPT ![a] =
                          IF Confirms(r.reply) THEN r.reply[2]
                          ELSE IF HasPlayerPrefix(data) THEN "none" ELSE @]
           /\ key_states' = KeyStatesAfter(key_states, act, pid)
           /\ keyboard' = KeyboardAfter(keyboard, act, pid, fail)
    /\ UNCHANGED <<server, now, next_sweep, housekeeping, last_sweep, sweeper, cleaner>>

-----------------------------------------------------------------------------
(* Threads beside the receive loop *)

RemoveAt(q, i) == SubSeq(q, 1, i - 1) \o SubSeq(q, i + 1, Len(q))

\* a sequence thread runs its next sub-command; a WAIT sub-command puts the
\* thread, not the receive loop, to sleep; an exception ends the thread
SeqStep(i, fail) ==
    /\ i \in 1..Len(seqs)
    /\ seqs[i].wake <= now
    /\ \E act \in {IF seqs[i].cmds = <<>> THEN NoAct
                    ELSE sequence_command(server, Head(seqs[i].cmds), seqs[i].pid)} :
       \E touch \in {TouchOutcome(server, act, seqs[i].pid, mouse_states, smoother, now)} :
       LET th   == seqs[i]
           done == th.cmds = <<>>
           pid  == th.pid
           rest == IF done THEN <<>> ELSE Tail(th.cmds)
           sleeps == act.k = "wait" /\ act.ms > 0
       IN  /\ fail => ActuatorCalled(act, pid)
           /\ mouse_states' = touch.ms
           /\ smoother' = touch.sm
           /\ moves' = moves \o Stamped(touch.out, pid, now)
           /\ momentum_timers' = MomentumTimersAfter(momentum_timers, touch.rearm, pid, now)
           /\ gamepads' = [gamepads EXCEPT ![pid] = GamepadAfter(@, act, fail)]
           /\ gp_log' = [gp_log EXCEPT ![pid] = GpLogAfter(@, act, fail)]
           /\ btn_cmds' = [btn_cmds EXCEPT ![pid] = BtnCmdsAfter(@, act)]
           /\ timers' = TimersAfter(timers, act, pid, fail)
           /\ kbm_calls' = KbmAfter(server, kbm_calls, act, pid, fail)
           /\ failures' = IF fail THEN [failures EXCEPT !.thread = @ + 1] ELSE failures
           /\ key_states' = KeyStatesAfter(key_states, act, pid)
           /\ keyboard' = KeyboardAfter(keyboard, act, pid, fail)
           /\ seqs' = IF done \/ Escapes(act, pid, fail) \/ (rest = <<>> /\ ~sleeps)
                      THEN RemoveAt(seqs, i)
                      ELSE [seqs EXCEPT ![i] =
                              [@ EXCEPT !.cmds = rest,
                                        !.wake = IF sleeps THEN now + act.ms ELSE @]]
    /\ UNCHANGED <<server, now, loop_alive, loop_wake, active_connections, last_reply,
                   last_dispatch, acked, next_sweep, housekeeping, last_sweep, n_recv,
                   last_sample, sweeper, cleaner>>

\* a threading.Timer fires: release_button(button, player_id), which catches
\* what the controller raises
TimerFire(i, fail) ==
    /\ i \in 1..Len(timers)
    /\ timers[i].at <= now
    /\ LET pid == timers[i].pid
           act == ReleaseAct(timers[i].b)
       IN  /\ gamepads' = [gamepads EXCEPT ![pid] = GamepadAfter(@, act, fail)]
           /\ gp_log' = [gp_log EXCEPT ![pid] = GpLogAfter(@, act, fail)]
           /\ failures' = IF fail THEN [failures EXCEPT !.timer = @ + 1] ELSE failures
    /\ timers' = RemoveAt(timers, i)
    /\ UNCHANGED <<server, now, loop_alive, loop_wake, active_connections, btn_cmds,
                   seqs, kbm_calls, last_reply, last_dispatch, acked, next_sweep,
                   housekeeping, last_sweep, n_recv, touch_vars, sweeper, key_vars>>

\* a momentum Timer fires: _handle_edge_momentum(mouse_state, player_id)
MomentumTick(i) ==
    /\ i \in 1..Len(momentum_timers)
    /\ momentum_timers[i].at <= now
    /\ LET pid == momentum_timers[i].pid
           o   == handle_edge_momentum(mouse_states[pid], pid)
       IN  /\ mouse_states' = [mouse_states EXCEPT ![pid] = o.st]
           /\ moves' = moves \o Stamped(o.out, pid, now)
           /\ momentum_timers' =
                  MomentumTimersAfter(RemoveAt(momentum_timers, i), o.rearm, pid, now)
    /\ UNCHANGED <<server, now, loop_alive, loop_wake, active_connections, gamepads,
                   gp_log, btn_cmds, timers, seqs, kbm_calls, last_reply, last_dispatch,
                   acked, failures, next_sweep, housekeeping, last_sweep, n_recv,
                   smoother, last_sample, sweeper, key_vars>>

\* time passes; a Timer that is due, a thread whose sleep has ended and a
\* scan of the registry that has begun go first
Tick(d, limit) ==
    /\ now + d <= limit
    /\ \A i \in 1..Len(timers) : timers[i].at > now
    /\ \A i \in 1..Len(seqs) : seqs[i].wake > now
    /\ sweeper.pc \notin {"scanning", "deleting"}
    /\ sweeper.pc = "sleeping" => next_sweep > now
    /\ housekeeping => HOUSEKEEPING_MS > now
    /\ \A i \in 1..Len(momentum_timers) : momentum_timers[i].at > now
    /\ now' = now + d
    /\ UNCHANGED <<server, loop_alive, loop_wake, active_connections, gamepads, gp_log,
                   btn_cmds, timers, seqs, kbm_calls, last_reply, last_dispatch, acked,
                   failures, next_sweep, housekeeping, last_sweep, n_recv, touch_vars,
                   sweeper, key_vars>>

\* variant of the test below: a session is inactive from 30 s on
Inactive_from_timeout(conn, t) == conn.player_id # "none" /\ t - conn.last_seen >= TIMEOUT_MS

\* "if now - conn['last_seen'] > timeout"
Inactive(conn, t) == conn.player_id # "none" /\ t - conn.last_seen > TIMEOUT_MS

\* clean_inactive_connections: collect the inactive keys, then delete them
clean_inactive_connections(conns, t) ==
    [a \in Addrs |-> IF Inactive(conns[a], t) THEN NoConn ELSE conns[a]]

\* what a sweep does to the state
Cleaned ==
    /\ active_connections' = clean_inactive_connections(active_connections, now)
    /\ last_sweep' = [at |-> now, before |-> active_connections]
    /\ acked' = [a \in Addrs |-> IF Inactive(active_connections[a], now)
                                 THEN "none" ELSE acked[a]]

\* scheduled_cleanup: "while True: time.sleep(10); clean_inactive_connections()"
Sweep ==
    /\ now >= next_sweep
    /\ Cleaned
    /\ next_sweep' = now + CLEANUP_PERIOD_MS
    /\ UNCHANGED <<server, now, loop_alive, loop_wake, gamepads, gp_log, btn_cmds,
                   timers, seqs, kbm_calls, last_reply, last_dispatch, failures,
                   housekeeping, n_recv, touch_vars, sweeper, key_vars>>

\* udp_server's "threading.Timer(10.0, clean_inactive_connections)": once
Housekeeping ==
    /\ housekeeping
    /\ now >= HOUSEKEEPING_MS
    /\ Cleaned
    /\ housekeeping' = FALSE
    /\ UNCHANGED <<server, now, loop_alive, loop_wake, gamepads, gp_log, btn_cmds,
                   timers, seqs, kbm_calls, last_reply, last_dispatch, failures,
                   next_sweep, n_recv, touch_vars, sweeper, key_vars>>

\* len(active_connections)
RegistrySize(conns) == Cardinality({a \in Addrs : conns[a].player_id # "none"})

\* scheduled_cleanup wakes and clean_inactive_connections begins
\* "for addr_key, conn in active_connections.items()": the registry is read
\* without a lock while the receive loop runs
SweepScan ==
    /\ sweeper.pc = "sleeping"
    /\ now >= next_sweep
    /\ sweeper' = [pc |-> "scanning", size |-> RegistrySize(active_connections),
                   to_remove |-> {}]
    /\ UNCHANGED <<server, now, loop_alive, loop_wake, active_connections, gamepads,
                   gp_log, btn_cmds, timers, seqs, kbm_calls, last_reply, last_dispatch,
                   acked, failures, next_sweep, housekeeping, last_sweep, n_recv,
                   touch_vars, key_vars>>

\* the scan ends.  When the loop had entries to visit and the registry
\* changed size between two of its steps, the dictionary iterator raises
\* RuntimeError, which nothing in clean_inactive_connections or
\* scheduled_cleanup catches: the thread ends.  Otherwise to_remove holds
\* the keys the loop found inactive.
SweepFinish ==
    /\ sweeper.pc = "scanning"
    /\ IF sweeper.size > 0 /\ RegistrySize(active_connections) # sweeper.size
       THEN sweeper' = [pc |-> "dead", size |-> 0, to_remove |-> {}]
       ELSE sweeper' = [pc |-> "deleting", size |-> 0,
                        to_remove |-> {a \in Addrs : Inactive(active_connections[a], now)}]
    /\ UNCHANGED <<server, now, loop_alive, loop_wake, active_connections, gamepads,
                   gp_log, btn_cmds, timers, seqs, kbm_calls, last_reply, last_dispatch,
                   acked, failures, next_sweep, housekeeping, last_sweep, n_recv,
                   touch_vars, key_vars>>

\* "for addr_key in to_remove: del active_connections[addr_key]", and the
\* thread sleeps again
SweepDelete ==
    /\ sweeper.pc = "deleting"
    /\ active_connections' = [a \in Addrs |-> IF a \in sweeper.to_remove
                                               THEN NoConn ELSE active_connections[a]]
    /\ last_sweep' = [at |-> now, before |-> active_connections]
    /\ acked' = [a \in Addrs |-> IF a \in sweeper.to_remove THEN "none" ELSE acked[a]]
    /\ next_sweep' = now + CLEANUP_PERIOD_MS
    /\ sweeper' = Sleeping
    /\ UNCHANGED <<server, now, loop_alive, loop_wake, gamepads, gp_log, btn_cmds,
                   timers, seqs, kbm_calls, last_reply, last_dispatch, failures,
                   housekeeping, n_recv, touch_vars, key_vars>>

\* scheduled_cleanup goes on to clean_key_states once its
\* clean_inactive_connections has returned (the sweep of this round has
\* moved next_sweep on): "for key in list(key_states['player1'].keys())"
\* copies the keys held for player1, without a lock
CleanKeysBegin ==
    /\ cleaner.pc = "idle"
    /\ next_sweep > cleaner.round
    /\ cleaner' = [pc |-> "checking", keys |-> key_states["player1"],
                   round |-> cleaner.round]
    /\ UNCHANGED <<server, now, loop_alive, loop_wake, active_connections, gamepads,
                   gp_log, btn_cmds, timers, seqs, kbm_calls, last_reply, last_dispatch,
                   acked, failures, next_sweep, housekeeping, last_sweep, n_recv,
                   touch_vars, sweeper, key_states, keyboard>>

\* one turn of the loop over the copied keys:
\* "if not keyboard.is_pressed(key): keyboard.press(key)"
CleanKey(key) ==
    /\ cleaner.pc = "checking"
    /\ key \in cleaner.keys
    /\ keyboard' = IF key \in keyboard THEN keyboard ELSE keyboard \cup {key}
    /\ cleaner' = [cleaner EXCEPT !.keys = @ \ {key}]
    /\ UNCHANGED <<server, now, loop_alive, loop_wake, active_connections, gamepads,
                   gp_log, btn_cmds, timers, seqs, kbm_calls, last_reply, last_dispatch,
                   acked, failures, next_sweep, housekeeping, last_sweep, n_recv,
                   touch_vars, sweeper, key_states>>

\* the loop is over; scheduled_cleanup sleeps again
CleanKeysEnd ==
    /\ cleaner.pc = "checking"
    /\ cleaner.keys = {}
    /\ cleaner' = Idle(next_sweep)
    /\ UNCHANGED <<server, now, loop_alive, loop_wake, active_connections, gamepads,
                   gp_log, btn_cmds, timers, seqs, kbm_calls, last_reply, last_dispatch,
                   acked, failures, next_sweep, housekeeping, last_sweep, n_recv,
                   touch_vars, sweeper, key_states, keyboard>>

-----------------------------------------------------------------------------
(* Specification of button timing: one sender, presses and releases       *)

ButtonLines ==
    { <<"X360A">>, <<"X360A_RELEASE">>, <<"X360A_HOLD">>, <<"player2", ":", "X360A">> }

Next ==
    \/ \E data \in ButtonLines, fail \in BOOLEAN : Receive("a1", data, fail)
    \/ \E i \in 1..Len(timers), fail \in BOOLEAN : TimerFire(i, fail)
    \/ \E d \in {50} : Tick(d, MaxTime)

Spec == Init /\ [][Next]_vars

-----------------------------------------------------------------------------
(* Properties of button timing *)

\* the reports the controller of player p received for button b, in order
Events(p, b) == SelectSeq(gp_log[p], LAMBDA ev : ev.b = b)

\* the commands handled for button b of player p, in order
Commands(p, b) == SelectSeq(btn_cmds[p], LAMBDA c : c.b = b)

\* the pending auto-release Timers of button b of player p
Pending(p, b) == {i \in 1..Len(timers) : timers[i].pid = p /\ timers[i].b = b}

NoFailure == failures = [loop |-> 0, thread |-> 0, timer |-> 0]

OnlyCommand(p, b, c) == Len(Commands(p, b)) = 1 /\ Commands(p, b)[1].c = c

\* C1: when an explicit release of a button is handled while the auto-release
\* of that player and button is pending, the controller receives one press
\* and one release in total: the Timer does not release the button again.
C1_ExplicitReleaseCancelsAutoRelease ==
    \A p \in Players, b \in Buttons :
        LET cs == Commands(p, b) IN
            ( /\ NoFailure
              /\ Len(cs) = 2
              /\ cs[1].c = "press" /\ cs[2].c = "release"
              /\ cs[2].t < cs[1].t + AUTO_RELEASE_MS )
            => /\ Len(Events(p, b)) <= 2
               /\ \A i \in 1..Len(Events(p, b)) : Events(p, b)[i].t < cs[1].t + AUTO_RELEASE_MS

\* C2: a plain press that is the only command for its button gives the
\* controller exactly one press and then, once the 100 ms Timer has fired,
\* exactly one release; until then exactly one Timer is pending for it.
C2_PressThenOneAutoRelease ==
    \A p \in Players, b \in Buttons :
        (NoFailure /\ OnlyCommand(p, b, "press")) =>
            LET t0 == Commands(p, b)[1].t
                ev == Events(p, b)
            IN  \/ /\ ev = <<[e |-> "press", b |-> b, t |-> t0]>>
                   /\ Cardinality(Pending(p, b)) = 1
                   /\ \A i \in Pending(p, b) : timers[i].at = t0 + AUTO_RELEASE_MS
                \/ /\ Len(ev) = 2
                   /\ ev[1] = [e |-> "press", b |-> b, t |-> t0]
                   /\ ev[2].e = "release"
                   /\ ev[2].t >= t0 + AUTO_RELEASE_MS
                   /\ Pending(p, b) = {}

C2_Witness ==
    \E p \in Players, b \in Buttons :
        /\ NoFailure
        /\ OnlyCommand(p, b, "press")
        /\ Len(Events(p, b)) = 2
        /\ Events(p, b)[2].e = "release"

\* C3: a _HOLD press that is the only command for its button gives the
\* controller one press, schedules no Timer, and no release ever follows.
C3_HoldNeverReleases ==
    \A p \in Players, b \in Buttons :
        (NoFailure /\ OnlyCommand(p, b, "hold")) =>
            /\ Events(p, b) = <<[e |-> "press", b |-> b, t |-> Commands(p, b)[1].t]>>
            /\ Pending(p, b) = {}

C3_Witness ==
    \E p \in Players, b \in Buttons :
        /\ NoFailure
        /\ OnlyCommand(p, b, "hold")
        /\ now >= Commands(p, b)[1].t + 2 * AUTO_RELEASE_MS
        /\ b \in gamepads[p].buttons

-----------------------------------------------------------------------------
(* Specification of waits and sequences: one sender *)

SequenceLines ==
    { <<"PING">>, <<"WAIT_200">>,
      <<"WAIT_200", ",", "X360A">>,
      <<"X360B", ",", "WAIT_200", ",", "X360A">> }

NextSequence ==
    \/ \E data \in SequenceLines : Receive("a1", data, FALSE)
    \/ \E i \in 1..Len(seqs), fail \in BOOLEAN : SeqStep(i, fail)
    \/ \E i \in 1..Len(timers) : TimerFire(i, FALSE)
    \/ \E d \in {50} : Tick(d, MaxTime)

SpecSequence == Init /\ [][NextSequence]_vars

\* a sequence thread is inside the time.sleep of a WAIT sub-command
SequenceSleeps == \E i \in 1..Len(seqs) : seqs[i].wake > now

\* C8: the datagram "WAIT_200,X360A" runs as a sequence: after it is
\* dispatched its thread is running, or has pressed A, 200 ms or more after
\* the dispatch.
C8_WaitLedSequencePressesAfterWait ==
    (last_dispatch.data = <<"WAIT_200", ",", "X360A">> /\ NoFailure) =>
        \/ \E i \in 1..Len(seqs) :
               seqs[i].text = last_dispatch.data /\ seqs[i].at = last_dispatch.at
        \/ \E i \in 1..Len(gp_log[last_dispatch.pid]) :
               /\ gp_log[last_dispatch.pid][i].e = "press"
               /\ gp_log[last_dispatch.pid][i].b = "A"
               /\ gp_log[last_dispatch.pid][i].t >= last_dispatch.at + 200

\* C9: while a WAIT is being served, in a sequence thread or for a
\* stand-alone datagram, the receive loop is in recvfrom, able to take the
\* next datagram.
C9_ReceiveLoopNeverBlocksOnWait ==
    (SequenceSleeps \/ loop_wake > now) => LoopReady

-----------------------------------------------------------------------------
(* Specification of sessions: two senders, identities, the sweeps *)

\* what each sender sends: a1 speaks the whole session protocol, a2 is a
\* second session beside it
SessionLines(a) ==
    IF a = "a1"
    THEN { <<"CONNECT", ":", "player2">>, <<"REGISTER", ":", "player2">>,
           <<"CONNECT", ":", "player3">>, <<"REGISTER", ":", "admin">>,
           <<"player2", ":", "PING">>, <<"X360A_HOLD">> }
    ELSE { <<"PING">>, <<"CONNECT", ":", "player2">> }

NextSession ==
    \/ \E a \in Addrs : \E data \in SessionLines(a) : Receive(a, data, FALSE)
    \/ \E d \in {10000} : Tick(d, MaxSessionTime)
    \/ Sweep
    \/ Housekeeping

SpecSession == Init /\ [][NextSession]_vars

\* C5: an un-prefixed datagram from an address whose CONNECT:player2 or
\* REGISTER:player2 was confirmed, and which was neither reassigned nor
\* evicted since, is dispatched as player2.
C5_ConfirmedIdentityIsUsed ==
    last_dispatch.expect # "none" => last_dispatch.pid = last_dispatch.expect

\* a CONNECT or REGISTER datagram whose id is neither player1 nor player2
InvalidIdRequest(data) ==
    /\ StartsWith(data, "CONNECT") \/ StartsWith(data, "REGISTER")
    /\ SplitRest(data, COLON) \notin {<<"player1">>, <<"player2">>}

-----------------------------------------------------------------------------
(* Specification of authority and failures: one sender, keyboard, mouse    *)
(* and gamepad commands under both identities, actuator calls that raise   *)

AuthorityLines ==
    { <<"DELTA", ":", "1.0", ",", "0.0">>, <<"MOUSE_LEFT_DOWN">>,
      <<"KEY_DOWN", ":", "w">>, <<"w">>, <<"X360A_HOLD">>,
      <<"CONNECT", ":", "player2">>, <<"player2", ":", "KEY_DOWN", ":", "w">> }

NextAuthority ==
    \E data \in AuthorityLines, fail \in BOOLEAN : Receive("a1", data, fail)

SpecAuthority == Init /\ [][NextAuthority]_vars

\* C4: no keyboard or pointer actuator call is made for a command handled
\* under the identity player2, and such a command gets no error reply.
C4_NoKeyboardOrPointerCallForPlayer2 ==
    /\ \A c \in kbm_calls : c.by # "player2"
    /\ (last_dispatch.pid = "player2" /\ last_dispatch.act \in {"key", "mouse"})
           => last_dispatch.reply = NoReply

-----------------------------------------------------------------------------
(* Properties of the session specification, continued *)

\* C11: a datagram whose text is exactly PING is answered PONG, whatever the
\* registry holds for its sender (nothing, player1 or player2).
C11_PingAnsweredPong ==
    last_dispatch.data = <<"PING">> =>
        /\ last_dispatch.reply = <<"PONG">>
        /\ last_reply = <<"PONG">>

\* PING from a sender registered as player2 was answered
C11_Witness ==
    /\ last_dispatch.data = <<"PING">>
    /\ last_dispatch.was = "player2"
    /\ last_dispatch.pid = "player2"
    /\ last_dispatch.reply = <<"PONG">>

-----------------------------------------------------------------------------
(* Specification of the two controllers: one sender speaking for both       *)
(* players, sticks, triggers, buttons and their Timers                      *)

FrameLines ==
    { <<"X360A">>, <<"X360A_RELEASE">>, <<"player2", ":", "X360A">>,
      <<"LS", ":", "1.0", ",", "0.5">>, <<"LS_UP">>,
      <<"player2", ":", "RT", ":", "0.5">>, <<"CONNECT", ":", "player2">> }

NextFrame ==
    \/ \E data \in FrameLines : Receive("a1", data, FALSE)
    \/ \E i \in 1..Len(timers) : TimerFire(i, FALSE)
    \/ \E d \in {100} : Tick(d, MaxTime)

SpecFrame == Init /\ [][NextFrame]_vars

\* C12: a stick, trigger, press or release command handled under identity p
\* changes the controller of p only, and so does the Timer it schedules: the
\* Timer carries p and releases on p's controller.
C12_OnlyOwnControllerChanges ==
    [][ /\ \A q \in Players :
              (gamepads'[q] # gamepads[q] \/ gp_log'[q] # gp_log[q]) =>
                  IF n_recv' # n_recv
                  THEN last_dispatch'.pid = q
                  ELSE \E i \in 1..Len(timers) :
                          timers[i].pid = q /\ timers' = RemoveAt(timers, i)
        /\ (n_recv' # n_recv /\ Len(timers') > Len(timers)) =>
              timers'[Len(timers')].pid = last_dispatch'.pid
      ]_vars

\* player2's button was pressed and released by its Timer while player1's
\* stick was deflected: each controller shows its own commands only
C12_Witness ==
    /\ Len(gp_log["player2"]) = 2
    /\ gp_log["player2"][2].e = "release"
    /\ gp_log["player1"] = <<>>
    /\ gamepads["player1"].ls = <<1000, -500>>
    /\ gamepads["player2"].ls = <<0, 0>>
    /\ timers = <<>>

-----------------------------------------------------------------------------
(* Specification of admission: two senders, first datagrams of every kind,  *)
(* the empty datagram among them                                            *)

AdmissionLines ==
    { <<>>, <<"PING">>, <<"X360A_HOLD">>, <<"CONNECT", ":", "player2">>,
      <<"player2", ":", "PING">> }

NextAdmission ==
    \/ \E a \in Addrs, data \in AdmissionLines : Receive(a, data, FALSE)
    \/ \E d \in {50} : Tick(d, MaxTime)

SpecAdmission == Init /\ [][NextAdmission]_vars

\* C13: a datagram from an address the registry does not hold creates a
\* session for that address, with last_seen the arrival time and identity
\* player1, or the identity of its prefix, or the identity its CONNECT or
\* REGISTER was confirmed with.
C13_UnknownSenderAdmitted ==
    (last_dispatch.addr # "-" /\ ~last_dispatch.known) =>
        LET conn == active_connections[last_dispatch.addr] IN
            /\ conn.last_seen = last_dispatch.at
            /\ conn.player_id =
                   IF HasPlayerPrefix(last_dispatch.data) THEN last_dispatch.data[1]
                   ELSE IF Confirms(last_dispatch.reply) /\ conn.player_id # "player1"
                   THEN last_dispatch.reply[2]
                   ELSE "player1"

-----------------------------------------------------------------------------
(* Specification of the order inside a sequence: one sender *)

OrderLines ==
    { <<"PING">>, <<"X360B", ",", "WAIT_100", ",", "X360A">> }

NextOrder ==
    \/ \E data \in OrderLines : Receive("a1", data, FALSE)
    \/ \E i \in 1..Len(seqs), fail \in BOOLEAN : SeqStep(i, fail)
    \/ \E i \in 1..Len(timers) : TimerFire(i, FALSE)
    \/ \E d \in {100} : Tick(d, MaxTime)

SpecOrder == Init /\ [][NextOrder]_vars

IsSuffix(s, t) == Len(s) <= Len(t) /\ s = SubSeq(t, Len(t) - Len(s) + 1, Len(t))

\* C14: the sub-commands of a sequence run one at a time, left to right: a
\* thread always holds a suffix of its line's sub-commands; of the threads
\* of "X360B,WAIT_100,X360A" exactly those past X360B have pressed B, and
\* every press of A comes 100 ms or more after the press of B before it.
C14_SubCommandsRunInTextOrder ==
    LET p  == "player1"
        As == Commands(p, "A")
        Bs == Commands(p, "B")
    IN  /\ \A i \in 1..Len(seqs) :
               /\ IsSuffix(seqs[i].cmds, SplitAll(seqs[i].text, COMMA))
               /\ seqs[i].cmds # <<>>
        /\ Len(Bs) = Len(As) + Cardinality({i \in 1..Len(seqs) : Len(seqs[i].cmds) <= 2})
        /\ \A k \in 1..Len(As) : Bs[k].t + 100 <= As[k].t

C14_Witness ==
    /\ Len(Commands("player1", "A")) >= 2
    /\ \E i \in 1..Len(seqs) : Len(seqs[i].cmds) = 1 /\ seqs[i].wake > now

-----------------------------------------------------------------------------
(* Specification of a sequence that fails: one sender *)

AbortLines ==
    { <<"PING">>,
      <<"X360B_HOLD", ",", "WAIT_99999999999999999999", ",", "X360B_RELEASE">>,
      <<"X360A_HOLD", ",", "WAIT_100", ",", "X360A_RELEASE">> }

NextAbort ==
    \/ \E data \in AbortLines : Receive("a1", data, FALSE)
    \/ \E i \in 1..Len(seqs), fail \in BOOLEAN : SeqStep(i, fail)
    \/ \E d \in {100} : Tick(d, MaxTime)

SpecAbort == Init /\ [][NextAbort]_vars

\* the commands of player p for button b that are of kind c
CommandsOf(p, b, c) == SelectSeq(btn_cmds[p], LAMBDA x : x.b = b /\ x.c = c)

\* C15: in "X360B_HOLD,WAIT_<too long>,X360B_RELEASE" the wait raises: the
\* release behind it is never executed, the press of B before it stays
\* applied, the receive loop stays in recvfrom, and the other sequence
\* "X360A_HOLD,WAIT_100,X360A_RELEASE" still runs to its release.
C15_FailedSubCommandAbandonsTheRest ==
    LET p == "player1" IN
        /\ CommandsOf(p, "B", "release") = <<>>
        /\ \A i \in 1..Len(gp_log[p]) : gp_log[p][i].b = "B" => gp_log[p][i].e = "press"
        /\ Events(p, "B") # <<>> => "B" \in gamepads[p].buttons
        /\ \A i \in 1..Len(seqs) :
               seqs[i].text[1] = "X360B_HOLD" => Len(seqs[i].cmds) >= 2
        /\ loop_alive /\ LoopReady
        /\ \A k \in 1..Len(CommandsOf(p, "A", "hold")) :
               now > CommandsOf(p, "A", "hold")[k].t + 100
                   => /\ Len(CommandsOf(p, "A", "release")) >= k
                      /\ CommandsOf(p, "A", "release")[k].t = CommandsOf(p, "A", "hold")[k].t + 100

C15_Witness ==
    LET p == "player1" IN
        /\ "B" \in gamepads[p].buttons
        /\ \A i \in 1..Len(seqs) : seqs[i].text[1] # "X360B_HOLD"
        /\ CommandsOf(p, "A", "release") # <<>>
        /\ CommandsOf(p, "A", "release")[1].t > CommandsOf(p, "B", "hold")[1].t

-----------------------------------------------------------------------------
(* Specification of touch samples: two senders *)

MaxTouchTime == 60

TouchLines ==
    { <<"TOUCHPAD", ":", "0.5", ",", "0.0">>,
      <<"TOUCHPAD", ":", "0.95", ",", "0.0">>,
      <<"TOUCHPAD", ":", "1.0", ",", "0.0">>,
      <<"TOUCHPAD_UP">>, <<"TOUCHPAD_END">> }

NextTouch ==
    \/ \E a \in Addrs, data \in TouchLines : Receive(a, data, FALSE)
    \/ \E i \in 1..Len(momentum_timers) : MomentumTick(i)
    \/ \E d \in {MOMENTUM_MS} : Tick(d, MaxTouchTime)

SpecTouch == Init /\ [][NextTouch]_vars

\* C16: when a sender's touch sample equals the sample it sent just before,
\* handling it makes no call of the pointer actuator.
C16_RepeatedSampleEmitsNothing ==
    last_dispatch.repeat => last_dispatch.emitted = <<>>

-----------------------------------------------------------------------------
(* Specification of edge momentum: one sender, and time that keeps passing *)

MaxMomentumTime == 160
MaxDrain == 120

MomentumLines ==
    { <<"TOUCHPAD", ":", "0.95", ",", "0.95">>,
      <<"TOUCHPAD", ":", "1.0", ",", "1.0">>,
      <<"TOUCHPAD_UP">> }

MomentumTicks == \E i \in 1..Len(momentum_timers) : MomentumTick(i)

TimePasses == \E d \in {MOMENTUM_MS} : Tick(d, MaxMomentumTime)

NextMomentum ==
    \/ \E data \in MomentumLines : Receive("a1", data, FALSE)
    \/ MomentumTicks
    \/ TimePasses

\* a Timer that is due runs, and the clock does not stop
SpecMomentum ==
    Init /\ [][NextMomentum]_vars /\ WF_vars(MomentumTicks) /\ WF_vars(TimePasses)

EdgeActive(p) == mouse_states[p].edge_active_x \/ mouse_states[p].edge_active_y

AtRest == momentum_timers = <<>> /\ \A p \in Players : ~EdgeActive(p)

\* of two momentum moves in a row the second is smaller on every axis that
\* still moves, and moves on one axis at least
MomentumDecreases ==
    \A i \in 1..(Len(moves) - 1) :
        (moves[i].by = "momentum" /\ moves[i + 1].by = "momentum") =>
            /\ moves[i + 1].dx # 0 \/ moves[i + 1].dy # 0
            /\ Abs(moves[i + 1].dx) < Abs(moves[i].dx) \/ moves[i + 1].dx = 0
            /\ Abs(moves[i + 1].dy) < Abs(moves[i].dy) \/ moves[i + 1].dy = 0

MomentumMovesNonZero ==
    \A i \in 1..Len(moves) :
        moves[i].by = "momentum" => (moves[i].dx # 0 \/ moves[i].dy # 0)

\* an edge-active axis has a momentum Timer pending
ActiveHasTimer ==
    \A p \in Players :
        EdgeActive(p) => \E i \in 1..Len(momentum_timers) : momentum_timers[i].pid = p

\* at rest, and with no new datagram, nothing moves and no Timer is started
RestStays == (AtRest /\ n_recv' = n_recv) => (AtRest' /\ moves' = moves)

\* C17: with an axis edge-active and no further datagram, the momentum
\* Timers move the pointer by non-zero, strictly decreasing amounts, and
\* after finitely many of them no axis is edge-active, no Timer is pending
\* and nothing moves any more.
C17_MomentumDecaysToRest ==
    /\ [](MomentumDecreases /\ MomentumMovesNonZero /\ ActiveHasTimer)
    /\ [][RestStays]_vars
    /\ \A n \in 0..(MaxDatagrams + 1) :
           (EdgeActive("player1") /\ n_recv = n /\ now + MaxDrain <= MaxMomentumTime)
               ~> (AtRest \/ n_recv # n)

C17_Witness ==
    /\ AtRest
    /\ last_dispatch.data = <<"TOUCHPAD_UP">>
    /\ Len(moves) >= 4
    /\ moves[Len(moves)].by = "momentum"
    /\ moves[Len(moves)].t > last_dispatch.at

-----------------------------------------------------------------------------
(* Specification of the player prefix: one sender *)

PrefixLines ==
    { <<"PING">>, <<"X360A_HOLD">>,
      <<"player2", ":", "PING">>,
      <<"player1", ":", "PING">>,
      <<"player2", ":", "X360A_HOLD">>,
      <<"player2", ":", "RT", ":", "0.5">>,
      <<"player1", ":", "LS_UP">>,
      <<"player2", ":", "CONNECT", ":", "player1">> }

NextPrefix ==
    \/ \E data \in PrefixLines : Receive("a1", data, FALSE)
    \/ \E d \in {50} : Tick(d, MaxTime)

SpecPrefix == Init /\ [][NextPrefix]_vars

\* C18: a line "<pid>:<rest>" gets the reply and takes the handler branch
\* that <rest> gets for identity pid, runs for the identity <rest> runs for,
\* and leaves pid stored for the sender (unless <rest> itself confirms an
\* identity).
C18_PrefixedLineDispatchedAsRest ==
    HasPlayerPrefix(last_dispatch.data) =>
        LET pid  == last_dispatch.data[1]
            rest == process_command(server, SplitRest(last_dispatch.data, COLON), pid)
        IN  /\ last_dispatch.reply = rest.reply
            /\ last_dispatch.act = rest.act.k
            /\ last_dispatch.pid = rest.pid
            /\ Confirms(rest.reply)
                   \/ active_connections[last_dispatch.addr].player_id = pid

-----------------------------------------------------------------------------
(* Specification of replies: one sender *)

ReplyLines ==
    { <<"PING">>, <<"player2", ":", "PING">>,
      <<"CONNECT", ":", "player2">>, <<"REGISTER", ":", "admin">>,
      <<"X360A">>, <<"F13">>, <<"WAIT_abc">>, <<"WAIT_99999999999999999999">>,
      <<"LS", ":", "1.0", ",", "0.5">>, <<"TOUCHPAD", ":", "0.5", ",", "0.0">> }

NextReply ==
    \/ \E data \in ReplyLines : Receive("a1", data, FALSE)
    \/ \E i \in 1..Len(timers) : TimerFire(i, FALSE)
    \/ \E d \in {50} : Tick(d, MaxTime)

SpecReply == Init /\ [][NextReply]_vars

\* the line behind the player prefix
Body(data) == IF HasPlayerPrefix(data) THEN SplitRest(data, COLON) ELSE data

\* C19: a datagram that is not PING, CONNECT:... or REGISTER:... gets no
\* reply.
C19_OnlySessionCommandsAreAnswered ==
    (/\ last_dispatch.addr # "-"
     /\ Body(last_dispatch.data) # <<"PING">>
     /\ ~StartsWith(Body(last_dispatch.data), "CONNECT")
     /\ ~StartsWith(Body(last_dispatch.data), "REGISTER"))
        => last_dispatch.reply = NoReply

-----------------------------------------------------------------------------
(* Specification of normalize: one sender moves the left stick *)

Operands == {"0.5", "-0.5", "0.02", "2.5", "-3", "1e3", "inf", "-inf", "nan", "abc"}

NormalizeLines == { <<"LS", ":", tok, ",", "1.0">> : tok \in Operands }

NextNormalize ==
    \/ \E data \in NormalizeLines : Receive("a1", data, FALSE)
    \/ \E d \in {50} : Tick(d, MaxTime)

SpecNormalize == Init /\ [][NextNormalize]_vars

\* C20: after "LS:<tok>,1.0" the x value the controller holds is within
\* [-1.0, 1.0]: the value of tok when that lies in the range, the nearer
\* bound when it lies outside, and 0.0 when tok is not a number.
C20_NormalizeClampsOrZero ==
    (last_dispatch.act = "stick" /\ last_dispatch.data \in NormalizeLines) =>
        LET tok == last_dispatch.data[3]
            v   == gamepads[last_dispatch.pid].ls[1]
        IN  /\ v \in -1000..1000
            /\ ParseFloat(tok) = NaN => v = 0
            /\ ParseFloat(tok) \in -1000..1000 => v = ParseFloat(tok)
            /\ (ParseFloat(tok) > 1000 /\ ParseFloat(tok) \notin {NaN, QuietNaN}) => v = 1000
            /\ ParseFloat(tok) < -1000 => v = -1000

C20_Witness ==
    /\ n_recv >= 3
    /\ last_dispatch.data = <<"LS", ":", "-3", ",", "1.0">>
    /\ gamepads[last_dispatch.pid].ls = <<-1000, -1000>>

-----------------------------------------------------------------------------
(* Properties of button timing, continued (specification Spec) *)

\* the release reports the controller of player p received for button b
Releases(p, b) == SelectSeq(gp_log[p], LAMBDA ev : ev.b = b /\ ev.e = "release")

\* C21: when a second plain press of a button is handled while the
\* auto-release of the first is pending, and these two are the only commands
\* for the button, the button is released once, 100 ms after the second
\* press, and not when the first Timer expires.
C21_RepressReschedulesRelease ==
    \A p \in Players, b \in Buttons :
        LET cs == Commands(p, b) IN
            ( /\ NoFailure
              /\ Len(cs) = 2
              /\ cs[1].c = "press" /\ cs[2].c = "press"
              /\ cs[2].t < cs[1].t + AUTO_RELEASE_MS )
            => /\ Len(Releases(p, b)) <= 1
               /\ \A i \in 1..Len(Releases(p, b)) :
                      Releases(p, b)[i].t >= cs[2].t + AUTO_RELEASE_MS
               /\ Cardinality(Pending(p, b)) + Len(Releases(p, b)) = 1

\* C22: for each player and button at most one auto-release Timer is pending.
C22_AtMostOnePendingTimer ==
    \A p \in Players, b \in Buttons : Cardinality(Pending(p, b)) <= 1

\* the last datagram was a plain press of A whose actuator call raised
PlainPressFailed ==
    /\ last_dispatch.act = "press"
    /\ Body(last_dispatch.data) = <<"X360A">>
    /\ failures.loop > last_dispatch.nfail

\* C23: when the press call of a plain press raises, the 100 ms Timer of
\* that player and button is scheduled all the same, and nothing else
\* happens: no reply, no keyboard call, the receive loop goes on.
C23_FailedPressStillSchedulesRelease ==
    (PlainPressFailed /\ now < last_dispatch.at + AUTO_RELEASE_MS) =>
        /\ \E i \in 1..Len(timers) :
               timers[i] = [pid |-> last_dispatch.pid, b |-> "A",
                            at |-> last_dispatch.at + AUTO_RELEASE_MS]
        /\ last_dispatch.reply = NoReply
        /\ kbm_calls = {}
        /\ LoopReady

-----------------------------------------------------------------------------
(* Specification of operands: one sender, numeric operands that do and do   *)
(* not parse                                                                *)

OperandLines ==
    { <<"LS", ":", "abc", ",", "0.5">>, <<"RS", ":", "0.5", ",", "x">>,
      <<"LT", ":", "0.5">>, <<"LT", ":", "foo">>,
      <<"DELTA", ":", "1.0", ",", "0.5">>, <<"DELTA", ":", "abc", ",", "1.0">> }

NextOperand ==
    \/ \E data \in OperandLines : Receive("a1", data, FALSE)
    \/ \E d \in {50} : Tick(d, MaxTime)

SpecOperand == Init /\ [][NextOperand]_vars

\* C24: a command whose numeric operand does not parse is executed with 0.0
\* in its place: "LS:abc,0.5" sets the left stick to (0, 0.5), "RS:0.5,x"
\* the right stick to (0.5, 0), "LT:foo" the left trigger to 0, and
\* "DELTA:abc,1.0" moves the pointer like "DELTA:0.0,1.0"; none of them is
\* answered and the receive loop goes on.
C24_MalformedOperandBecomesZero ==
    LET d == last_dispatch.data
        g == gamepads[last_dispatch.pid]
    IN  /\ d = <<"LS", ":", "abc", ",", "0.5">> => g.ls = <<0, -500>>
        /\ d = <<"RS", ":", "0.5", ",", "x">> => g.rs = <<500, 0>>
        /\ d = <<"LT", ":", "foo">> => g.lt = 0
        /\ d = <<"DELTA", ":", "abc", ",", "1.0">> =>
               /\ last_dispatch.act = "mouse"
               /\ \E c \in kbm_calls : c.dev = "mouse" /\ c.op = "move"
        /\ d \in OperandLines => (last_dispatch.reply = NoReply /\ LoopReady)

-----------------------------------------------------------------------------
(* Specification of the sweep beside the receive loop: two senders, and the *)
(* scan of the registry as a step of its own                                *)

RaceLines == { <<"PING">>, <<"CONNECT", ":", "player2">> }

NextRace ==
    \/ \E a \in Addrs, data \in RaceLines : Receive(a, data, FALSE)
    \/ SweepScan
    \/ SweepFinish
    \/ SweepDelete
    \/ Housekeeping
    \/ \E d \in {CLEANUP_PERIOD_MS} : Tick(d, MaxSessionTime)

SpecRace == Init /\ [][NextRace]_vars

\* C25: the sweep thread never ends, whatever the receive loop registers
\* while a scan is under way: a scan that has begun completes, and the next
\* sweep is always due within 10 s.
C25_SweepSurvivesRegistration ==
    /\ sweeper.pc # "dead"
    /\ next_sweep >= now
    /\ next_sweep <= now + CLEANUP_PERIOD_MS

-----------------------------------------------------------------------------
(* Specification of touch state: two senders on the servers whose touch     *)
(* handling is in the source tree                                           *)

SharedLines ==
    { <<"TOUCHPAD", ":", "0.5", ",", "0.0">>, <<"TOUCHPAD", ":", "0.0", ",", "0.5">>,
      <<"TOUCHPAD_DOWN">>, <<"TOUCHPAD_UP">>, <<"TOUCHPAD_END">> }

NextShared ==
    \/ \E a \in Addrs, data \in SharedLines : Receive(a, data, FALSE)
    \/ \E d \in {MOMENTUM_MS} : Tick(d, MaxTouchTime)

SpecShared == InitPointer /\ [][NextShared]_vars

\* the touch state the next sample of sender a is handled with:
\* mouse_states[player_id] on Controller Server 2, the one smoother elsewhere
TouchStateFor(a) ==
    IF server = "cs2" THEN mouse_states[StoredPlayer(active_connections, a)]
    ELSE smoother

\* C26: every session has its own touch state: while the last touch event
\* of a sender is a sample, the previous sample its next motion is computed
\* from is that sample, and its touch is still active, whatever another
\* sender sent in between (the merged server never marks a touch active).
C26_TouchStatePerSession ==
    \A a \in Addrs :
        last_sample[a] # <<>> =>
            /\ TouchStateFor(a).prev_x = last_sample[a][1]
            /\ TouchStateFor(a).prev_y = last_sample[a][2]
            /\ server # "merged" => TouchStateFor(a).touch_active

-----------------------------------------------------------------------------
(* Specification of the lifecycle words: one sender *)

LifecycleLines ==
    { <<"TOUCHPAD_DOWN">>, <<"TOUCHPAD_UP">>, <<"TOUCHPAD_END">>, <<"TOUCH_END">>,
      <<"MOUSE_LEFT_DOWN">>, <<"MOUSE_LEFT_UP">>, <<"MOUSE_RESET">> }

NextLifecycle ==
    \/ \E data \in LifecycleLines : Receive("a1", data, FALSE)
    \/ \E d \in {50} : Tick(d, MaxTime)

SpecLifecycle == Init /\ [][NextLifecycle]_vars

\* C27: each of TOUCHPAD_DOWN, TOUCHPAD_UP, TOUCHPAD_END, TOUCH_END,
\* MOUSE_LEFT_DOWN, MOUSE_LEFT_UP and MOUSE_RESET goes to the touch
\* lifecycle or mouse button handling: none takes the keyboard branch, and
\* no keyboard call is made for any.
C27_LifecycleWordsNeverTyped ==
    last_dispatch.data \in LifecycleLines =>
        /\ last_dispatch.act \in {"touch", "mouse", "none"}
        /\ \A c \in kbm_calls : c.dev # "keyboard"

-----------------------------------------------------------------------------
(* Specification of lines with a comma: one sender *)

CommaLines ==
    { <<"X360A", ",", "X360B">>, <<"X360A", ",", "LT", ":", "0.5">> }

NextComma ==
    \/ \E data \in CommaLines \cup {<<"PING">>} : Receive("a1", data, FALSE)
    \/ \E i \in 1..Len(seqs) : SeqStep(i, FALSE)
    \/ \E i \in 1..Len(timers) : TimerFire(i, FALSE)
    \/ \E d \in {100} : Tick(d, MaxTime)

SpecComma == Init /\ [][NextComma]_vars

\* C28: the lines "X360A,X360B" and "X360A,LT:0.5", which contain a comma
\* and match no rule before the sequence rule, are dispatched as sequences:
\* a thread is started for the line, and it is running or has pressed A.
C28_CommaLineIsSequence ==
    last_dispatch.data \in CommaLines =>
        /\ last_dispatch.act = "seq"
        /\ \/ \E i \in 1..Len(seqs) :
                  seqs[i].text = last_dispatch.data /\ seqs[i].at = last_dispatch.at
           \/ \E k \in 1..Len(Commands(last_dispatch.pid, "A")) :
                  Commands(last_dispatch.pid, "A")[k].t >= last_dispatch.at

-----------------------------------------------------------------------------
(* Specification of key state commands: one sender *)

KeyLines ==
    { <<"KEY_DOWN", ":", "w">>, <<"KEY_SYNC", ":", "w">>, <<"KEY_UP", ":", "w">>,
      <<"CONNECT", ":", "player2">> }

NextKeys ==
    \/ \E data \in KeyLines : Receive("a1", data, FALSE)
    \/ \E d \in {50} : Tick(d, MaxTime)

SpecKeys == Init /\ [][NextKeys]_vars

\* C29: "KEY_SYNC:w" does what "KEY_DOWN:w" does for the same identity: it
\* takes the key branch, and for player1 the keyboard press call is made.
C29_KeySyncActsAsKeyDown ==
    last_dispatch.data = <<"KEY_SYNC", ":", "w">> =>
        /\ last_dispatch.act =
               process_command(server, <<"KEY_DOWN", ":", "w">>, last_dispatch.was).act.k
        /\ last_dispatch.act = "key"
        /\ last_dispatch.pid = "player1" =>
               \E c \in kbm_calls : c.dev = "keyboard" /\ c.op = "press" /\ c.by = "player1"

-----------------------------------------------------------------------------
(* Specification of the first sample of a touch: one sender on the servers  *)
(* whose touch handling is in the source tree                               *)

FirstLines ==
    { <<"TOUCHPAD", ":", "0.0", ",", "0.0">>, <<"TOUCHPAD", ":", "0.5", ",", "0.0">>,
      <<"TOUCHPAD", ":", "0.95", ",", "0.0">>,
      <<"TOUCHPAD_DOWN">>, <<"TOUCHPAD_UP">>, <<"TOUCHPAD_END">> }

NextFirst ==
    \/ \E data \in FirstLines : Receive("a1", data, FALSE)
    \/ \E i \in 1..Len(momentum_timers) : MomentumTick(i)
    \/ \E d \in {MOMENTUM_MS} : Tick(d, MaxTouchTime)

SpecFirst == InitPointer /\ [][NextFirst]_vars

-----------------------------------------------------------------------------
(* Specification of the end of a touch: one sender, samples toward the     *)
(* edge, and the words that end a touch                                    *)

UpWords == { <<"TOUCHPAD_UP">>, <<"TOUCHPAD_END">>, <<"TOUCH_END">> }

ReleaseLines ==
    { <<"TOUCHPAD", ":", "0.5", ",", "0.0">>, <<"TOUCHPAD", ":", "0.95", ",", "0.0">> }
        \cup UpWords

NextRelease ==
    \/ \E data \in ReleaseLines : Receive("a1", data, FALSE)
    \/ \E i \in 1..Len(momentum_timers) : MomentumTick(i)
    \/ \E d \in {MOMENTUM_MS} : Tick(d, MaxTouchTime)

SpecRelease == InitPointer /\ [][NextRelease]_vars

TouchCleared(st) == [st EXCEPT !.touch_active = FALSE]

\* the receive loop has just dispatched one of the words that end a touch
UpDispatched == n_recv' = n_recv + 1 /\ last_dispatch'.data \in UpWords

\* a momentum Timer of player1 has just fired while the touch was over and
\* the momentum was still above its threshold
MomentumFiredAfterUp ==
    /\ n_recv' = n_recv
    /\ momentum_timers' # momentum_timers
    /\ ~mouse_states["player1"].touch_active
    /\ \/ MomentumStays(mouse_states["player1"].edge_active_x, mouse_states["player1"].momentum_x)
       \/ MomentumStays(mouse_states["player1"].edge_active_y, mouse_states["player1"].momentum_y)

-----------------------------------------------------------------------------
(* Specification of pointer speed: one sender, DELTA commands and samples  *)

\* StabilitySmoother.max_speed, in pixels
MAX_SPEED == 15

SpeedLines ==
    { <<"DELTA", ":", "1.0", ",", "0.0">>, <<"DELTA", ":", "0.0", ",", "0.02">>,
      <<"TOUCHPAD", ":", "0.0", ",", "0.0">>, <<"TOUCHPAD", ":", "0.5", ",", "0.0">>,
      <<"TOUCHPAD", ":", "0.95", ",", "0.0">> }

NextSpeed ==
    \/ \E data \in SpeedLines : Receive("a1", data, FALSE)
    \/ \E i \in 1..Len(momentum_timers) : MomentumTick(i)
    \/ \E d \in {MOMENTUM_MS} : Tick(d, MaxTouchTime)

SpecSpeed == InitPointer /\ [][NextSpeed]_vars

\* C32: every pointer call made for a touch sample or a DELTA command moves
\* the pointer by at most max_speed pixels on each axis.
C32_MotionWithinMaxSpeed ==
    \A i \in 1..Len(last_dispatch.motion) :
        /\ Abs(last_dispatch.motion[i].dx) <= MAX_SPEED
        /\ Abs(last_dispatch.motion[i].dy) <= MAX_SPEED

-----------------------------------------------------------------------------
(* Properties of button timing, held buttons (specification Spec)          *)

\* C33: a button pressed with _HOLD less than 100 ms after a plain press of
\* the same button of the same player, these two being the only commands
\* for the button, stays pressed: no release was asked for.
C33_HoldAfterPressStaysPressed ==
    \A p \in Players, b \in Buttons :
        LET cs == Commands(p, b) IN
            ( /\ NoFailure
              /\ Len(cs) = 2
              /\ cs[1].c = "press" /\ cs[2].c = "hold"
              /\ cs[2].t < cs[1].t + AUTO_RELEASE_MS )
            => /\ b \in gamepads[p].buttons
               /\ Releases(p, b) = <<>>

-----------------------------------------------------------------------------
(* Specification of the key-state cleaner: one sender pressing and          *)
(* releasing a key of the keyboard, the cleanup thread beside the receive   *)
(* loop                                                                     *)

\* the servers whose clean_key_states is in the source tree
KeyServers == {"merged", "cs2"}

InitKeys == server \in KeyServers /\ Started

CleanLines == { <<"KEY_DOWN", ":", "w">>, <<"KEY_UP", ":", "w">> }

\* the keys a datagram can name
Keys == {"w"}

\* no time passes while clean_key_states is due or running
CleanerAtRest == cleaner.pc = "idle" /\ next_sweep = cleaner.round

NextClean ==
    \/ \E data \in CleanLines : Receive("a1", data, FALSE)
    \/ Sweep
    \/ Housekeeping
    \/ CleanKeysBegin
    \/ \E key \in Keys : CleanKey(key)
    \/ CleanKeysEnd
    \/ \E d \in {CLEANUP_PERIOD_MS} : CleanerAtRest /\ Tick(d, MaxSessionTime)

SpecClean == InitKeys /\ [][NextClean]_vars

\* C34: once KEY_UP:w of player1 is the last key command handled, the key w
\* is not pressed, whatever the cleanup thread was doing meanwhile.
C34_CleanerNeverRepressesReleasedKey ==
    ( /\ last_dispatch.data = <<"KEY_UP", ":", "w">>
      /\ last_dispatch.pid = "player1" )
    => "w" \notin keyboard

-----------------------------------------------------------------------------
(* Properties of the sweep beside the receive loop, continued              *)
(* (specification SpecRace)                                                *)

\* C35: a session whose latest datagram is less than 30 s old is in the
\* registry, whatever a sweep was doing when the datagram arrived.
C35_RefreshedSessionSurvivesSweep ==
    \A a \in Addrs :
        ( /\ last_dispatch.addr = a
          /\ Admits(server, last_dispatch.data)
          /\ now - last_dispatch.at < TIMEOUT_MS )
        => active_connections[a].player_id # "none"

-----------------------------------------------------------------------------
(* Properties of button commands and the keyboard (specification Spec,     *)
(* whose datagrams all name a known button)                                *)

\* C36: a command that names a button of the press, hold or release table
\* makes no keyboard call, also when the controller call it makes raises.
C36_ButtonCommandNeverTyped ==
    ( /\ Len(Body(last_dispatch.data)) = 1
      /\ InPressTable(Body(last_dispatch.data)) \/ InReleaseTable(Body(last_dispatch.data)) )
    => \A c \in kbm_calls : c.dev # "keyboard"

-----------------------------------------------------------------------------
(* Specification of sub-commands: one sender, sequences that hold a stick  *)
(* shortcut, and the shortcut alone                                        *)

SubLines ==
    { <<"LS_UP", ",", "X360A">>, <<"X360A", ",", "LS_UP">>, <<"LS_UP">> }

NextSub ==
    \/ \E data \in SubLines : Receive("a1", data, FALSE)
    \/ \E i \in 1..Len(seqs) : SeqStep(i, FALSE)
    \/ \E i \in 1..Len(timers) : TimerFire(i, FALSE)
    \/ \E d \in {100} : Tick(d, MaxTime)

SpecSub == Init /\ [][NextSub]_vars

\* the sequence thread i has just run its next sub-command
SubCommandRun(i) ==
    /\ n_recv' = n_recv
    /\ i \in 1..Len(seqs)
    /\ seqs[i].cmds # <<>>
    /\ \/ seqs' = RemoveAt(seqs, i)
       \/ /\ Len(seqs') = Len(seqs)
          /\ seqs'[i].cmds = Tail(seqs[i].cmds)

\* C37: a sub-command of a sequence has the effect the same text has as a
\* datagram of its own from the same player: the same change of the
\* player's controller, the same keyboard and mouse calls.
C37_SubCommandAsStandAlone ==
    [][ \A i \in 1..Len(seqs) :
          SubCommandRun(i) =>
            LET pid == seqs[i].pid
                alone == process_command(server, Head(seqs[i].cmds), pid).act
            IN  /\ gamepads'[pid] = GamepadAfter(gamepads[pid], alone, FALSE)
                /\ kbm_calls' = KbmAfter(server, kbm_calls, alone, pid, FALSE)
      ]_vars

-----------------------------------------------------------------------------
(* Properties of the momentum Timers (specification SpecFirst)             *)

\* the pending momentum Timers of player p
PendingMomentum(p) == {i \in 1..Len(momentum_timers) : momentum_timers[i].pid = p}

\* C38: for each player at most one momentum Timer is pending.
C38_AtMostOneMomentumTimer ==
    \A p \in Players : Cardinality(PendingMomentum(p)) <= 1

-----------------------------------------------------------------------------
(* Specification of a stream of samples on the merged server: one sender,  *)
(* each sample away from the one before                                    *)

InitMerged == server = "merged" /\ Started

StreamLines ==
    { <<"TOUCHPAD", ":", "0.0", ",", "0.0">>, <<"TOUCHPAD", ":", "0.5", ",", "0.0">>,
      <<"TOUCHPAD", ":", "0.95", ",", "0.0">>, <<"POS", ":", "0.0", ",", "0.5">>,
      <<"POS", ":", "-0.5", ",", "0.5">> }

\* the position a line of the stream holds
StreamPosition(data) == <<NormText(<<data[3]>>), NormText(<<data[5]>>)>>

NextStream ==
    \/ \E data \in StreamLines :
          /\ last_sample["a1"] # StreamPosition(data)
          /\ Receive("a1", data, FALSE)
    \/ \E d \in {MOMENTUM_MS} : Tick(d, MaxTouchTime)

SpecStream == InitMerged /\ [][NextStream]_vars

\* C39: on the merged server the first sample of a stream makes the smoother
\* touch-active, and by the second sample, half the pad away from the
\* first, the pointer has been moved.
C39_StreamProducesMove ==
    n_recv >= 1 =>
        /\ smoother.touch_active
        /\ n_recv >= 2 => moves # <<>>

-----------------------------------------------------------------------------
(* Properties of eviction (specification SpecSession)                      *)

\* the last sweep evicted the session of address a
Evicted(a) ==
    /\ last_sweep.before[a].player_id # "none"
    /\ Inactive(last_sweep.before[a], last_sweep.at)

\* the last datagram is the first from its address since the sweep evicted
\* the session of that address, it has no player prefix, and it is neither
\* CONNECT nor REGISTER
FirstAfterEviction ==
    /\ last_dispatch.addr \in Addrs
    /\ Evicted(last_dispatch.addr)
    /\ last_dispatch.at >= last_sweep.at
    /\ ~last_dispatch.known
    /\ ~HasPlayerPrefix(last_dispatch.data)
    /\ ~StartsWith(last_dispatch.data, "CONNECT")
    /\ ~StartsWith(last_dispatch.data, "REGISTER")

\* C40: the first un-prefixed datagram from an address after the sweep has
\* evicted its session is dispatched as player1, and the session created for
\* it holds player1, whatever identity the evicted session had.
C40_EvictedSenderReturnsAsPlayer1 ==
    FirstAfterEviction =>
        /\ last_dispatch.was = "player1"
        /\ last_dispatch.pid = "player1"
        /\ active_connections[last_dispatch.addr].player_id = "player1"

\* a session of player2 was evicted, and its sender came back as player1
C40_Witness ==
    /\ FirstAfterEviction
    /\ last_sweep.before[last_dispatch.addr].player_id = "player2"
    /\ last_dispatch.pid = "player1"
    /\ active_connections[last_dispatch.addr] =
           [player_id |-> "player1", last_seen |-> last_dispatch.at]

====
